---- MODULE Spec2Model ----
(***************************************************************************)
(* A model of the patch pipeline of uCats (src/μCats.py):                  *)
(*   signals_from_array_avg -> process_signals_parallel ->                 *)
(*   combine_weighted_signals, as driven by calculate_baseline,            *)
(* of the other routines that normalise an accumulator by a count buffer,  *)
(* and of the label-guided reconstruction sp_rec_with_labels.              *)
(*                                                                         *)
(* Numbers.  Floating point values are modelled exactly, as integers over  *)
(* a common denominator.  A kernel weight is an integer numerator over the *)
(* kernel sum KernSum(size); a patch signal sample is an integer over the  *)
(* same denominator.  The result of a division is kept as the pair of its  *)
(* numerator and denominator together with the guard that was added to the *)
(* denominator (see Quot), so that 0/0 (NaN) and x/0 (inf) stay visible.   *)
(***************************************************************************)
EXTENDS Integers, Sequences, FiniteSets, TLC

\* ---------------------------------------------------------------- bounds
MaxRows == 2
MaxCols == 3
MaxT == 2
MaxPix == 1
MaxPatch == 2
MaxStride == 2
MaxJobs == 2
MaxSide == 4
MaxHood == 1
MaxLevel == 2
MaxLen == 4
MaxMinSize == 5
MaxIters == 2
MaxEvT == 2
MaxEvR == 2
MaxEvC == 2
MaxMinDuration == 1
MaxMinArea == 1
MaxSigLen == 10
MaxCorrect == 2
MaxAlsLen == 8
MaxSmooth == 2
MaxNiter == 3
MaxProdLen == 12
MaxPulse == 3
MaxWLen == 2
MaxZ == 2
MaxUnroll == 2

\* chunksize=4 of pool.map in process_signals_parallel
ChunkSize == 4

\* ------------------------------------------------------------ arithmetic
RECURSIVE SumSeq(_)
SumSeq(s) == IF Len(s) = 0 THEN 0 ELSE Head(s) + SumSeq(Tail(s))

RECURSIVE SumOver(_, _)
\* the sum of f[x] over the finite set S
SumOver(f, S) ==
    IF S = {} THEN 0
    ELSE LET x == CHOOSE y \in S : TRUE IN f[x] + SumOver(f, S \ {x})

Min2(a, b) == IF a < b THEN a ELSE b
Abs(a) == IF a < 0 THEN -a ELSE a

\* The result of the numpy division n / (g*eps + d), eps = 1e-12, g in {0,1}.
Quot(n, d, g) == [n |-> n, d |-> d, g |-> g]
IsNaN(q) == q.g = 0 /\ q.d = 0 /\ q.n = 0
IsInf(q) == q.g = 0 /\ q.d = 0 /\ q.n # 0
IsFinite(q) == q.g = 1 \/ q.d # 0
IsZero(q) == IsFinite(q) /\ q.n = 0

\* ------------------------------------------------------------- the tiling
\* A Python slice start:stop.
Slice(a, b) == [start |-> a, stop |-> b]

\* The indices an array axis of length dim yields for slice sl (numpy clips a
\* slice to the axis).
SliceIdx(sl, dim) == {i \in 0..(dim - 1) : sl.start <= i /\ i < sl.stop}

\* The number of window origins along an axis: 0, stride, 2*stride, ... < dim.
NumOrigins(dim, stride) == ((dim - 1) \div stride) + 1

\* The k-th (1-based) window along one axis, clipped to the axis.
AxisWindow(k, dim, size, stride) ==
    Slice((k - 1) * stride, Min2((k - 1) * stride + size, dim))

\* make_grid(shape, size, stride): the windows of a regular grid over the two
\* spatial axes, in row-major order of their origins.
make_grid(shape, size, stride) ==
    LET nr == NumOrigins(shape[1], stride)
        nc == NumOrigins(shape[2], stride)
    IN [q \in 1..(nr * nc) |->
          << AxisWindow(((q - 1) \div nc) + 1, shape[1], size, stride),
             AxisWindow(((q - 1) % nc) + 1, shape[2], size, stride) >>]

\* --------------------------------------------------------------- kernel
\* exp(-0.5*(x/sigma)^2) for sigma = 1.5 at x = k/2, in tenths, rounded:
\* exp(-k^2/18) = 1, 0.946, 0.801, 0.607, 0.411, 0.249, 0.135, ...
GaussTenths(k) ==
    CASE k = 0 -> 10 [] k = 1 -> 9 [] k = 2 -> 8 [] k = 3 -> 6
      [] k = 4 -> 4 [] k = 5 -> 2 [] OTHER -> 1

\* make_weighting_kern(size): g[i][j] for 0 <= i,j < size; the grid
\* -size/2+0.5 .. size/2-0.5 puts sample i at distance |2i-(size-1)|/2.
make_weighting_kern(size) ==
    [i \in 0..(size - 1) |-> [j \in 0..(size - 1) |->
        GaussTenths(Abs(2 * i - (size - 1))) * GaussTenths(Abs(2 * j - (size - 1)))]]

\* w.sum(): the denominator of every normalised kernel weight.
KernSum(size) ==
    LET g == make_weighting_kern(size)
    IN SumOver([p \in (0..(size - 1)) \X (0..(size - 1)) |-> g[p[1]][p[2]]],
               (0..(size - 1)) \X (0..(size - 1)))

\* ------------------------------------------------- signals_from_array_avg
\* The row and column indices of window s in an array of shape <<T, R, C>>.
WinRows(s, shape) == SliceIdx(s[1], shape[2])
WinCols(s, shape) == SliceIdx(s[2], shape[3])
WinH(s, shape) == Cardinality(WinRows(s, shape))
WinW(s, shape) == Cardinality(WinCols(s, shape))

SquaresSwapped(shape, stride, patch_size) ==
    make_grid(<<shape[2], shape[3]>>, stride, patch_size)

\* squares = make_grid(d.shape[1:], patch_size, stride)
Squares(shape, stride, patch_size) ==
    make_grid(<<shape[2], shape[3]>>, patch_size, stride)

\* wclip = w[:sh[1], :sh[2]] of the normalised kernel w = g / g.sum(), as
\* numerators over KernSum(patch_size); no division follows the clipping.
ClipKernel(patch_size, h, wd) ==
    LET g == make_weighting_kern(patch_size)
    IN [i \in 0..(Min2(h, patch_size) - 1) |->
          [j \in 0..(Min2(wd, patch_size) - 1) |-> g[i][j]]]

\* wclip.reshape(1,-1): the clipped kernel flattened row by row.
Flatten(wclip, h, wd) ==
    [k \in 1..(h * wd) |-> wclip[(k - 1) \div wd][(k - 1) % wd]]

\* signal = (patch*wclip).sum(axis=(1,2)), one sample per frame.
PatchSignal(d, shape, sq, wclip) ==
    [t \in 0..(shape[1] - 1) |->
        SumOver([p \in WinRows(sq, shape) \X WinCols(sq, shape) |->
                    d[<<t, p[1], p[2]>>]
                      * wclip[p[1] - sq[1].start][p[2] - sq[2].start]],
                WinRows(sq, shape) \X WinCols(sq, shape))]

\* One element of acc: (signal, sq, wclip.reshape(1,-1)).
PatchTriple(d, shape, sq, patch_size) ==
    LET h == WinH(sq, shape)
        wd == WinW(sq, shape)
        wclip == ClipKernel(patch_size, h, wd)
    IN [v |-> PatchSignal(d, shape, sq, wclip),
        s |-> sq,
        w |-> Flatten(wclip, h, wd)]

signals_from_array_avg(d, shape, stride, patch_size) ==
    LET squares == Squares(shape, stride, patch_size)
    IN [q \in 1..Len(squares) |-> PatchTriple(d, shape, squares[q], patch_size)]

\* ----------------------------------------------- combine_weighted_signals
\* wx = w.reshape(out_data[tslice+tuple(s)].shape[1:])
Reshape(w, h, wd) ==
    [i \in 0..(h - 1) |-> [j \in 0..(wd - 1) |-> w[i * wd + j + 1]]]

InWindow(p, s, shape) == p[1] \in WinRows(s, shape) /\ p[2] \in WinCols(s, shape)

\* counts[s] += wx
AddCounts(cnt, tr, shape) ==
    LET wx == Reshape(tr.w, WinH(tr.s, shape), WinW(tr.s, shape))
    IN [p \in DOMAIN cnt |->
          IF InWindow(p, tr.s, shape)
          THEN cnt[p] + wx[p[1] - tr.s[1].start][p[2] - tr.s[2].start]
          ELSE cnt[p]]

\* out_data[tslice+tuple(s)] += v.reshape(-1,1,1)*wx
AddSignal(out, tr, shape) ==
    LET wx == Reshape(tr.w, WinH(tr.s, shape), WinW(tr.s, shape))
    IN [x \in DOMAIN out |->
          IF InWindow(<<x[2], x[3]>>, tr.s, shape)
          THEN out[x] + tr.v[x[1]] * wx[x[2] - tr.s[1].start][x[3] - tr.s[2].start]
          ELSE out[x]]

\* A variant of Normalize that returns the plain sum, without the division.
NormalizePlainSum(out, cnt) ==
    [x \in DOMAIN out |-> Quot(out[x], 1, 0)]

\* A variant of Normalize whose guard is 1 instead of 1e-12.
NormalizeGuardOne(out, cnt) ==
    [x \in DOMAIN out |-> Quot(out[x], cnt[<<x[2], x[3]>>] + 1, 0)]

\* out_data /= (1e-12 + counts)
Normalize(out, cnt) ==
    [x \in DOMAIN out |-> Quot(out[x], cnt[<<x[2], x[3]>>], 1)]

Voxels(shape) == (0..(shape[1] - 1)) \X (0..(shape[2] - 1)) \X (0..(shape[3] - 1))
Pixels(shape) == (0..(shape[2] - 1)) \X (0..(shape[3] - 1))

\* np.zeros(shape) and np.zeros(shape[1:])
ZeroStack(shape) == [x \in Voxels(shape) |-> 0]
ZeroImage(shape) == [p \in Pixels(shape) |-> 0]

\* ------------------------------------------------------------- the state
\* calculate_baseline
VARIABLES
    frames,      \* calculate_baseline: the TXY stack, <<t, r, c>> |-> value
    shape,       \* frames.shape, <<T, R, C>>
    stride,      \* stride
    patch_size,  \* patch_size
    pipeline,    \* the per-signal function handed to process_signals_parallel
    njobs,       \* the number of pool workers
    pc,          \* where the calling thread is in calculate_baseline
    collection,  \* the list returned by signals_from_array_avg
    nextChunk,   \* the pool's task queue: the next chunk to hand out
    workers,     \* the pool's worker processes
    mapValue,    \* MapResult._value: one slot per input item
    mapSuccess,  \* MapResult._success
    numberLeft,  \* MapResult._number_left: chunks not yet reported
    doneOrder,   \* history: the chunks in the order in which they reported
    recsb,       \* the list returned by process_signals_parallel
    out_data,    \* combine_weighted_signals: the accumulator
    counts,      \* combine_weighted_signals: the weight-count buffer
    ci,          \* combine_weighted_signals: the loop position (1-based)
    result,      \* what calculate_baseline returns
    err          \* the exception that left calculate_baseline, if any

pvars == <<frames, shape, stride, patch_size, pipeline, njobs, pc, collection,
           nextChunk, workers, mapValue, mapSuccess, numberLeft, doneOrder, recsb,
           out_data, counts, ci, result, err>>

\* the normalising routines
VARIABLES
    nroutine,  \* which routine runs
    nshape,    \* data.shape, <<T, R, C>>
    nlevel,    \* the level of each frame
    nstride,   \* stride
    nsize,     \* nhood, or patch_size for map_patches and combine_weighted_signals
    nitems,    \* the contributions still to add, as (signal, window, weights)
    nk,        \* the loop position (1-based)
    nout,      \* out
    ncounts,   \* counts
    nresult,   \* the returned array
    npc        \* "start", "loop", "done"

nvars == <<nroutine, nshape, nlevel, nstride, nsize, nitems, nk, nout, ncounts,
           nresult, npc>>

\* sp_rec_with_labels
VARIABLES
    vec,              \* the signal (1-based here; Python index i is i+1)
    labels,           \* the label sequence, 0/1
    min_size,         \* min_size
    smoother,         \* the smoother argument
    filtered_labels,  \* filtered_labels
    weights,          \* weights
    vec1,             \* vec1
    vs,               \* vs
    vrec,             \* vrec
    it,               \* the number of loop passes made
    rout,             \* the returned signal
    rpc               \* "start", "check", "loop", "done"

rvars == <<vec, labels, min_size, smoother, filtered_labels, weights, vec1, vs,
           vrec, it, rout, rpc>>

\* the windows of signals_from_array_avg
VARIABLES
    gshape,   \* d.shape
    gsize,    \* patch_size
    gstride,  \* stride
    gtiles,   \* the windows of the patches taken
    gpc       \* "start", "done"

gvars == <<gshape, gsize, gstride, gtiles, gpc>>

\* EventCollection
VARIABLES
    eframes,        \* frames, <<t, r, c>> |-> value in thousandths
    eshape,         \* frames.shape
    emin_duration,  \* min_duration
    emin_area,      \* min_area
    elabels,        \* self.labels
    eobjs,          \* self.objs
    ecoll,          \* self.coll
    efiltered,      \* self.filtered_coll
    eout,           \* out of to_filtered_array
    ei,             \* to_filtered_array: the loop position (1-based)
    eresult,        \* what to_filtered_array returned
    epc             \* "start", "segmented", "collected", "built", "raster", "done"

evars == <<eframes, eshape, emin_duration, emin_area, elabels, eobjs, ecoll,
           efiltered, eout, ei, eresult, epc>>

\* rolling_sd_pd
VARIABLES
    sv,        \* v
    ssmooth,   \* smooth_output
    sspline,   \* which smoother stands for l2spline
    scf,       \* correct_factor
    sdetails,  \* details
    shw,       \* hw
    spadded,   \* padded
    sout,      \* out
    sresult,   \* the returned array
    serr,      \* the exception that left rolling_sd_pd, if any
    spc        \* "start", "padded", "rolled", "scaled", "done"

svars == <<sv, ssmooth, sspline, scf, sdetails, shw, spadded, sout, sresult, serr, spc>>

\* baseline_als_spl; arrays are kept by their lengths
VARIABLES
    alen,       \* len(y) on entry
    asmooth,    \* smooth
    aniter,     \* niter
    arsdGiven,  \* whether the caller passed rsd
    anpad,      \* npad
    aL,         \* L, the length of the padded y
    arsdLen,    \* len(rsd)
    ai,         \* the passes of the loop made
    acalls,     \* the calls of smoother made inside the loop
    azDefined,  \* whether z has been assigned
    azprev,     \* whether zprev is not None
    aresult,    \* the length of the returned array, None before the return
    aerr,       \* the exception that left baseline_als_spl, if any
    apc         \* "start", "padded", "loop", "after", "done"

avars == <<alen, asmooth, aniter, arsdGiven, anpad, aL, arsdLen, ai, acalls, azDefined,
           azprev, aresult, aerr, apc>>

\* simple_pipeline_ and simple_get_baselines, the per-patch producers
VARIABLES
    qfn,        \* the producer called
    qy,         \* y on entry
    qspline,    \* the smoother that stands for l2spline
    qobjs,      \* what mvm.find_objects reports: "none" or "all"
    qns,        \* ns, the running noise level (fractions, None for NaN)
    qyb,        \* y after the bias was taken off, in halves
    qvnlen,     \* len(vn)
    qlabels,    \* what the labeler returned, None before it is called
    qres,       \* res of tmvm_baseline
    qb,         \* b of tmvm_baseline (fractions)
    qresult,    \* the returned array, None before the return
    qerr,       \* the exception that left the producer, if any
    qpc         \* the position in the producer

qvars == <<qfn, qy, qspline, qobjs, qns, qyb, qvnlen, qlabels, qres, qb, qresult, qerr, qpc>>

\* baseline_als_spl, the reweighting loop with its values
VARIABLES
    by,       \* y: the argument, then the padded signal
    brsd,     \* rsd: the argument, then the padded noise level
    bnpad,    \* npad
    bniter,   \* niter
    bw,       \* w, in units of 1/(10*PInv)
    bz,       \* z, None while unassigned
    bzprev,   \* zprev, None for Python's None
    bi,       \* the passes of the loop made
    bresult,  \* the returned array, None before the return
    bpc       \* "start", "loop", "after", "done"

bvars == <<by, brsd, bnpad, bniter, bw, bz, bzprev, bi, bresult, bpc>>

\* Which arrays the operations allocate, alias and write
VARIABLES
    hfn,      \* the operation called
    hprog,    \* the statements it executes, in order
    hip,      \* the number of statements executed
    henv,     \* the array each name is bound to
    hheap,    \* for every array, the number of in-place writes made to it
    howned,   \* the arrays the caller passed in
    hresult,  \* the array returned, 0 before the return
    hpc       \* "run", "done"

hvars == <<hfn, hprog, hip, henv, hheap, howned, hresult, hpc>>

vars == <<pvars, nvars, rvars, gvars, evars, svars, avars, qvars, bvars, hvars>>

\* what the actions of one part leave alone: the other parts
exceptP == <<nvars, rvars, gvars, evars, svars, avars, qvars, bvars, hvars>>
exceptN == <<pvars, rvars, gvars, evars, svars, avars, qvars, bvars, hvars>>
exceptR == <<pvars, nvars, gvars, evars, svars, avars, qvars, bvars, hvars>>
exceptG == <<pvars, nvars, rvars, evars, svars, avars, qvars, bvars, hvars>>
exceptE == <<pvars, nvars, rvars, gvars, svars, avars, qvars, bvars, hvars>>
exceptS == <<pvars, nvars, rvars, gvars, evars, avars, qvars, bvars, hvars>>
exceptA == <<pvars, nvars, rvars, gvars, evars, svars, qvars, bvars, hvars>>
exceptQ == <<pvars, nvars, rvars, gvars, evars, svars, avars, bvars, hvars>>
exceptB == <<pvars, nvars, rvars, gvars, evars, svars, avars, qvars, hvars>>
exceptH == <<pvars, nvars, rvars, gvars, evars, svars, avars, qvars, bvars>>

None == <<>>
Some(x) == <<x>>

\* ----------------------------------------------------- pipeline stand-ins
\* The pipeline is a parameter; these stand in for it.  "ident" returns the
\* signal, "const" returns a constant signal, "raise" raises on an all-zero
\* signal and returns the signal otherwise.  A pipeline sees the signal only.
Pipelines ==
    {[kind |-> "ident", c |-> 0], [kind |-> "raise", c |-> 0],
     [kind |-> "const", c |-> MaxPix]}

PipelineFails(p, v) == p.kind = "raise" /\ \A t \in DOMAIN v : v[t] = 0

PipelineOut(p, v) == IF p.kind = "const" THEN [t \in DOMAIN v |-> p.c] ELSE v

\* What a failing pipeline raises: at most a function of the signal it was given.
PipelineExc(p, v) == [exc |-> "PipelineError", arg |-> v]

\* ------------------------------------------------------------ the inputs
\* Stacks of shape sh: all zero but for at most one voxel of the first frame.
Stacks(sh) ==
    {[x \in Voxels(sh) |-> IF x = <<0, hot[1], hot[2]>> THEN hv ELSE 0] :
        hot \in Pixels(sh), hv \in 0..MaxPix}

\* The stacks have MaxT frames.
Shapes == {MaxT} \X (1..MaxRows) \X (1..MaxCols)

PipeInit ==
    /\ shape \in Shapes
    /\ frames \in Stacks(shape)
    /\ stride \in 1..MaxStride
    /\ patch_size \in 1..MaxPatch
    /\ pipeline \in Pipelines
    /\ njobs \in 1..MaxJobs
    /\ pc = "start"
    /\ collection = <<>>
    /\ nextChunk = 0
    /\ workers = <<>>
    /\ mapValue = <<>>
    /\ mapSuccess = TRUE
    /\ numberLeft = 0
    /\ doneOrder = <<>>
    /\ recsb = <<>>
    /\ out_data = <<>>
    /\ counts = <<>>
    /\ ci = 0
    /\ result = <<>>
    /\ err = None

\* ----------------------------------------------------- calculate_baseline
\* collection = signals_from_array_avg(frames, stride=stride, patch_size=patch_size)
Extract ==
    /\ pc = "start"
    /\ collection' = signals_from_array_avg(frames, shape, stride, patch_size)
    /\ pc' = "pool"
    /\ UNCHANGED exceptP
    /\ UNCHANGED <<frames, shape, stride, patch_size, pipeline, njobs, nextChunk,
                   workers, mapValue, mapSuccess, numberLeft, doneOrder, recsb, out_data,
                   counts, ci, result, err>>

\* ------------------------------------------------ process_signals_parallel
NumChunks(n) == (n + ChunkSize - 1) \div ChunkSize

\* The (1-based) input positions of chunk k of n items.
ChunkItems(k, n) ==
    {i \in 1..n : (k - 1) * ChunkSize < i /\ i <= k * ChunkSize}

IdleWorker == [st |-> "idle", chunk |-> 0, pos |-> 0, buf |-> <<>>]

\* pool = Pool(njobs); pool.map(pipeline, [c[0] for c in collection], chunksize=4)
\* is entered: the items are cut into chunks and queued.
PoolMap ==
    /\ pc = "pool"
    /\ workers' = [w \in 1..njobs |-> IdleWorker]
    /\ mapValue' = [i \in 1..Len(collection) |-> None]
    /\ mapSuccess' = TRUE
    /\ numberLeft' = NumChunks(Len(collection))
    /\ doneOrder' = <<>>
    /\ nextChunk' = 1
    /\ pc' = "map"
    /\ UNCHANGED exceptP
    /\ UNCHANGED <<frames, shape, stride, patch_size, pipeline, njobs, collection,
                   recsb, out_data, counts, ci, result, err>>

\* An idle worker takes the next chunk off the task queue.
TakeChunk(w) ==
    /\ workers[w].st = "idle"
    /\ nextChunk <= NumChunks(Len(collection))
    /\ workers' = [workers EXCEPT ![w] =
                      [st |-> "busy", chunk |-> nextChunk, pos |-> 0, buf |-> <<>>]]
    /\ nextChunk' = nextChunk + 1
    /\ UNCHANGED exceptP
    /\ UNCHANGED <<frames, shape, stride, patch_size, pipeline, njobs, pc, collection,
                   mapValue, mapSuccess, numberLeft, doneOrder, recsb, out_data, counts, ci,
                   result, err>>

\* A variant of StoreChunk that fills the first free slots, in the order in
\* which the chunks report.
StoreChunkArrival(value, k, buf) ==
    LET free == {i \in DOMAIN value : value[i] = None}
        first == IF free = {} THEN 1 ELSE CHOOSE i \in free : \A j \in free : i <= j
    IN [i \in DOMAIN value |->
          IF first <= i /\ i < first + Len(buf) THEN Some(buf[i - first + 1])
          ELSE value[i]]

\* MapResult._set(i, (True, result)): the chunk's results go to the chunk's own
\* slots of the value list, whatever the order in which chunks report.
StoreChunk(value, k, buf) ==
    [i \in DOMAIN value |->
        IF i \in ChunkItems(k, Len(value))
        THEN Some(buf[i - (k - 1) * ChunkSize])
        ELSE value[i]]

\* A busy worker applies the pipeline to the next item of its chunk.  The chunk
\* ends at its last item or at the first item on which the pipeline raises; the
\* worker then reports the chunk to the MapResult and is idle again.
RunTask(w) ==
    LET me == workers[w]
        n == Len(collection)
        i == (me.chunk - 1) * ChunkSize + me.pos + 1
        v == collection[i].v
        last == i = n \/ me.pos + 1 = ChunkSize
        buf == Append(me.buf, PipelineOut(pipeline, v))
    IN
    /\ me.st = "busy"
    /\ IF PipelineFails(pipeline, v)
       THEN /\ workers' = [workers EXCEPT ![w] = IdleWorker]
            /\ numberLeft' = numberLeft - 1
            /\ mapSuccess' = FALSE
            /\ mapValue' = IF mapSuccess THEN Some(PipelineExc(pipeline, v)) ELSE mapValue
            /\ doneOrder' = Append(doneOrder, me.chunk)
       ELSE IF last
       THEN /\ workers' = [workers EXCEPT ![w] = IdleWorker]
            /\ numberLeft' = numberLeft - 1
            /\ mapSuccess' = mapSuccess
            /\ mapValue' = IF mapSuccess THEN StoreChunk(mapValue, me.chunk, buf)
                           ELSE mapValue
            /\ doneOrder' = Append(doneOrder, me.chunk)
       ELSE /\ workers' = [workers EXCEPT ![w] = [me EXCEPT !.pos = me.pos + 1, !.buf = buf]]
            /\ UNCHANGED <<numberLeft, mapSuccess, mapValue, doneOrder>>
    /\ UNCHANGED exceptP
    /\ UNCHANGED <<frames, shape, stride, patch_size, pipeline, njobs, pc, collection,
                   nextChunk, recsb, out_data, counts, ci, result, err>>

\* pool.map returns once every chunk has reported.
MapReady == numberLeft = 0

\* pool.map returns the value list: recs.
MapReturn ==
    /\ pc = "map"
    /\ MapReady
    /\ mapSuccess
    /\ pc' = "close"
    /\ UNCHANGED exceptP
    /\ UNCHANGED <<frames, shape, stride, patch_size, pipeline, njobs, collection,
                   nextChunk, workers, mapValue, mapSuccess, numberLeft, doneOrder, recsb,
                   out_data, counts, ci, result, err>>

\* pool.map re-raises the first exception a worker reported; nothing in
\* process_signals_parallel or calculate_baseline catches it.  (Depending on
\* the Python version the result is ready at the first failure or only when all
\* chunks have reported: both are allowed.)
MapRaise ==
    /\ pc = "map"
    /\ ~mapSuccess
    /\ err' = mapValue
    /\ pc' = "raised"
    /\ UNCHANGED exceptP
    /\ UNCHANGED <<frames, shape, stride, patch_size, pipeline, njobs, collection,
                   nextChunk, workers, mapValue, mapSuccess, numberLeft, doneOrder, recsb,
                   out_data, counts, ci, result>>

\* pool.close()
PoolClose ==
    /\ pc = "close"
    /\ pc' = "join"
    /\ UNCHANGED exceptP
    /\ UNCHANGED <<frames, shape, stride, patch_size, pipeline, njobs, collection,
                   nextChunk, workers, mapValue, mapSuccess, numberLeft, doneOrder, recsb,
                   out_data, counts, ci, result, err>>

\* A worker of a closed pool exits once it is idle and the queue is empty.
WorkerExit(w) ==
    /\ pc = "join"
    /\ workers[w].st = "idle"
    /\ nextChunk > NumChunks(Len(collection))
    /\ workers' = [workers EXCEPT ![w].st = "exited"]
    /\ UNCHANGED exceptP
    /\ UNCHANGED <<frames, shape, stride, patch_size, pipeline, njobs, pc, collection,
                   nextChunk, mapValue, mapSuccess, numberLeft, doneOrder, recsb, out_data,
                   counts, ci, result, err>>

\* A variant of AllExited that does not wait for the workers.
AllExitedNoWait == TRUE

\* pool.join() returns when every worker has exited.
AllExited == \A w \in DOMAIN workers : workers[w].st = "exited"

PoolJoin ==
    /\ pc = "join"
    /\ AllExited
    /\ pc' = "zip"
    /\ UNCHANGED exceptP
    /\ UNCHANGED <<frames, shape, stride, patch_size, pipeline, njobs, collection,
                   nextChunk, workers, mapValue, mapSuccess, numberLeft, doneOrder, recsb,
                   out_data, counts, ci, result, err>>

\* return [(r,s,w) for r,(v,s,w) in zip(recs, collection)]
ZipRecs(recs, coll) ==
    [i \in 1..Min2(Len(recs), Len(coll)) |->
        [v |-> recs[i][1], s |-> coll[i].s, w |-> coll[i].w]]

\* process_signals_parallel returns; combine_weighted_signals(recsb, sh) starts
\* with out_data = np.zeros(shape), counts = np.zeros(shape[1:]).
ZipReturn ==
    /\ pc = "zip"
    /\ recsb' = ZipRecs(mapValue, collection)
    /\ out_data' = ZeroStack(shape)
    /\ counts' = ZeroImage(shape)
    /\ ci' = 1
    /\ pc' = "combine"
    /\ UNCHANGED exceptP
    /\ UNCHANGED <<frames, shape, stride, patch_size, pipeline, njobs, collection,
                   nextChunk, workers, mapValue, mapSuccess, numberLeft, doneOrder, result, err>>

\* ----------------------------------------------- combine_weighted_signals
\* One pass of "for v,s,w in collection".
CombineStep ==
    /\ pc = "combine"
    /\ ci <= Len(recsb)
    /\ out_data' = AddSignal(out_data, recsb[ci], shape)
    /\ counts' = AddCounts(counts, recsb[ci], shape)
    /\ ci' = ci + 1
    /\ UNCHANGED exceptP
    /\ UNCHANGED <<frames, shape, stride, patch_size, pipeline, njobs, pc, collection,
                   nextChunk, workers, mapValue, mapSuccess, numberLeft, doneOrder, recsb,
                   result, err>>

\* The loop is over: out_data /= (1e-12 + counts); return out_data.
CombineReturn ==
    /\ pc = "combine"
    /\ ci > Len(recsb)
    /\ result' = Normalize(out_data, counts)
    /\ pc' = "done"
    /\ UNCHANGED exceptP
    /\ UNCHANGED <<frames, shape, stride, patch_size, pipeline, njobs, collection,
                   nextChunk, workers, mapValue, mapSuccess, numberLeft, doneOrder, recsb,
                   out_data, counts, ci, err>>



\* ============================================================================
\* The routines that divide an accumulator by a weight-count buffer:
\* nonlocal_video_smooth, patch_pca_denoise, patch_pca_denoise2, map_patches
\* and combine_weighted_signals.  Each adds one contribution per window to
\* an accumulator and the window's weights to a count buffer, then divides.
\*
\* The input stacks are spatially uniform, data[t, r, c] = level[t] with level
\* positive and not constant in time.  On these the per-window numerics are
\* exact: every pixel series equals the centre series, so pearsonr is 1 and the
\* normalised weights are 1/Ln each; a median over pixels is level[t]; a patch
\* has rank one, so that its truncated SVD (npc >= 1) reproduces it and the
\* score sum(s[:npc]**2)/sum(s**2) is 1.
\* ============================================================================
Routines == {"nonlocal_video_smooth", "patch_pca_denoise", "patch_pca_denoise2",
             "map_patches", "combine_weighted_signals"}

UniformStack(sh, level) == [x \in Voxels(sh) |-> level[x[1]]]

\* range(nhood, dim-nhood, stride), as a sequence.
CenterRange(dim, nhood, step) ==
    LET n == IF dim - nhood > nhood THEN ((dim - 2 * nhood - 1) \div step) + 1 ELSE 0
    IN [k \in 1..n |-> nhood + (k - 1) * step]

\* sl = (slice(r-nhood,r+nhood+1), slice(c-nhood,c+nhood+1)) for every (r, c)
\* of the two nested loops, in loop order.
CenterWindows(sh, nhood, step) ==
    LET rs == CenterRange(sh[2], nhood, step)
        cs == CenterRange(sh[3], nhood, step)
    IN [q \in 1..(Len(rs) * Len(cs)) |->
          LET r == rs[((q - 1) \div Len(cs)) + 1]
              c == cs[((q - 1) % Len(cs)) + 1]
          IN <<Slice(r - nhood, r + nhood + 1), Slice(c - nhood, c + nhood + 1)>>]

Median3(a, b, c) ==
    IF (a <= b /\ b <= c) \/ (c <= b /\ b <= a) THEN b
    ELSE IF (b <= a /\ a <= c) \/ (c <= a /\ a <= b) THEN a
    ELSE c

\* ndimage.median_filter(x, 3) along time, mode 'reflect'.
MedFilt3(x, T) ==
    [t \in 0..(T - 1) |->
        Median3(x[IF t = 0 THEN 0 ELSE t - 1], x[t], x[IF t = T - 1 THEN T - 1 ELSE t + 1])]

Ones(n) == [k \in 1..n |-> 1]

RECURSIVE MaxOf(_)
MaxOf(S) == LET x == CHOOSE y \in S : TRUE
            IN IF S = {x} THEN x
               ELSE LET m == MaxOf(S \ {x}) IN IF x > m THEN x ELSE m

\* nonlocal_video_smooth: out[sl] += xs*wx, counts[sl] += wx with
\* wx = weights/np.sum(weights); numerators over Ln = (2*nhood+1)**2.
NonlocalItems(sh, level, nhood, step) ==
    LET ws == CenterWindows(sh, nhood, step)
    IN [q \in 1..Len(ws) |->
          [v |-> level, s |-> ws[q], w |-> Ones((2 * nhood + 1) * (2 * nhood + 1))]]

\* patch_pca_denoise: out[tsl] += (proj+Xc), counts[sl] += 1.
PcaItems(sh, level, nhood, step) ==
    LET ws == CenterWindows(sh, nhood, step)
    IN [q \in 1..Len(ws) |->
          [v |-> level, s |-> ws[q], w |-> Ones((2 * nhood + 1) * (2 * nhood + 1))]]

\* patch_pca_denoise2: out[tsl] += score*proj, counts[sl] += score, where proj
\* is built from the temporally median-filtered components ux.
Pca2Items(sh, level, nhood, step) ==
    LET ws == CenterWindows(sh, nhood, step)
    IN [q \in 1..Len(ws) |->
          [v |-> MedFilt3(level, sh[1]), s |-> ws[q],
           w |-> Ones((2 * nhood + 1) * (2 * nhood + 1))]]

\* map_patches with fn = np.max: out[s] += fn(data[(tslice,)+s]), counts[s] += 1.
\* out and counts have the spatial shape only (one "frame").
MapItems(sh, level, psize, step) ==
    LET ws == make_grid(<<sh[2], sh[3]>>, psize, step)
    IN [q \in 1..Len(ws) |->
          [v |-> [t \in {0} |-> MaxOf({level[u] : u \in 0..(sh[1] - 1)})],
           s |-> ws[q],
           w |-> Ones(WinH(ws[q], sh) * WinW(ws[q], sh))]]

ItemsOf(routine, sh, level, size, step) ==
    CASE routine = "nonlocal_video_smooth" -> NonlocalItems(sh, level, size, step)
      [] routine = "patch_pca_denoise" -> PcaItems(sh, level, size, step)
      [] routine = "patch_pca_denoise2" -> Pca2Items(sh, level, size, step)
      [] routine = "map_patches" -> MapItems(sh, level, size, step)
      [] OTHER -> signals_from_array_avg(UniformStack(sh, level), sh, step, size)

\* The shape of out: map_patches accumulates an image, the others a stack.
OutShape(routine, sh) == IF routine = "map_patches" THEN <<1, sh[2], sh[3]>> ELSE sh

\* out /= counts (nonlocal_video_smooth), out/counts (map_patches).
DividePlain(out, cnt) ==
    [x \in DOMAIN out |-> Quot(out[x], cnt[<<x[2], x[3]>>], 0)]

\* out = out/counts[None,:,:], then out[:,r,c] = 0 wherever counts[r,c] == 0.
DivideThenZero(out, cnt) ==
    [x \in DOMAIN out |->
        IF cnt[<<x[2], x[3]>>] = 0 THEN Quot(0, 1, 0)
        ELSE Quot(out[x], cnt[<<x[2], x[3]>>], 0)]

Finish(routine, out, cnt) ==
    CASE routine \in {"nonlocal_video_smooth", "map_patches"} -> DividePlain(out, cnt)
      [] routine \in {"patch_pca_denoise", "patch_pca_denoise2"} -> DivideThenZero(out, cnt)
      [] OTHER -> Normalize(out, cnt)

Levels(T) == {l \in [0..(T - 1) -> 1..MaxLevel] : \E t, u \in 0..(T - 1) : l[t] # l[u]}

NormInit ==
    /\ nroutine \in Routines
    /\ nshape \in {MaxT} \X (1..MaxSide) \X (1..MaxSide)
    /\ nlevel \in Levels(MaxT)
    /\ nstride \in 1..MaxStride
    /\ nsize \in 1..MaxHood
    /\ nitems = <<>>
    /\ nk = 0
    /\ nout = <<>>
    /\ ncounts = <<>>
    /\ nresult = <<>>
    /\ npc = "start"

\* The routine is entered: out and counts are zero arrays.
NormStart ==
    /\ npc = "start"
    /\ nitems' = ItemsOf(nroutine, nshape, nlevel, nsize, nstride)
    /\ nout' = ZeroStack(OutShape(nroutine, nshape))
    /\ ncounts' = ZeroImage(nshape)
    /\ nk' = 1
    /\ npc' = "loop"
    /\ UNCHANGED exceptN
    /\ UNCHANGED <<nroutine, nshape, nlevel, nstride, nsize, nresult>>

\* One window: its contribution is added to out, its weights to counts.
NormStep ==
    /\ npc = "loop"
    /\ nk <= Len(nitems)
    /\ nout' = AddSignal(nout, nitems[nk], nshape)
    /\ ncounts' = AddCounts(ncounts, nitems[nk], nshape)
    /\ nk' = nk + 1
    /\ UNCHANGED exceptN
    /\ UNCHANGED <<nroutine, nshape, nlevel, nstride, nsize, nitems, nresult, npc>>

\* The loops are over: the routine divides and returns.
NormFinish ==
    /\ npc = "loop"
    /\ nk > Len(nitems)
    /\ nresult' = Finish(nroutine, nout, ncounts)
    /\ npc' = "done"
    /\ UNCHANGED exceptN
    /\ UNCHANGED <<nroutine, nshape, nlevel, nstride, nsize, nitems, nk, nout, ncounts>>

\* ------------------------------------------------- sp_rec_with_labels
\* kgain=0.25, as its inverse
KgainInv == 4
\* wmedian=3 of sp_rec_with_labels, wmedian=10 of smoothed_medianf
WMedian == 3
WMedianDefault == 10

RECURSIVE Pow(_, _)
Pow(b, e) == IF e = 0 THEN 1 ELSE b * Pow(b, e - 1)

\* Samples are fixed-point: 1.0 is 20 * Grain, and every input sample is a
\* multiple of Grain = 4^MaxIters, which keeps each relaxation by kgain exact.
Grain == Pow(KgainInv, MaxIters)
Tenth == 2 * Grain
Half == 10 * Grain
Samples == {-20 * Grain, 6 * Grain, 20 * Grain}

\* ndimage's mode='reflect' for an index j outside 0..n-1 (0-based).
Reflect(j, n) == LET m == j % (2 * n) IN IF m < n THEN m ELSE 2 * n - 1 - m

\* The element of rank k (0-based) of the sorted values of s.
Ranked(s, k) ==
    CHOOSE x \in {s[i] : i \in DOMAIN s} :
        /\ Cardinality({i \in DOMAIN s : s[i] < x}) <= k
        /\ k < Cardinality({i \in DOMAIN s : s[i] <= x})

\* ndimage.median_filter(v, size) on a 1-D array
median_filter(v, size) ==
    [i \in 1..Len(v) |->
        Ranked([k \in 1..size |-> v[Reflect(i - 1 - (size \div 2) + (k - 1), Len(v)) + 1]],
               size \div 2)]

\* The smoother argument, called as smoother(v, smooth, wmedian): the identity,
\* or a median filter of width wmedian.
Smoothers == {"identity", "median_filter"}
Smooth(kind, v, wmedian) == IF kind = "median_filter" THEN median_filter(v, wmedian) ELSE v

\* ndimage.label and find_objects on a 1-D array, and contiguous_regions: the
\* maximal runs of nonzero entries, in order, as slices with 0-based start and
\* stop.
RECURSIVE RunStop(_, _)
RunStop(m, p) == IF p < Len(m) /\ m[p + 1] # 0 THEN RunStop(m, p + 1) ELSE p

RECURSIVE RunsFrom(_, _)
RunsFrom(m, p) ==
    IF p >= Len(m) THEN <<>>
    ELSE IF m[p + 1] = 0 THEN RunsFrom(m, p + 1)
    ELSE <<Slice(p, RunStop(m, p))>> \o RunsFrom(m, RunStop(m, p))

find_objects(m) == RunsFrom(m, 0)
contiguous_regions(m) == RunsFrom(m, 0)

\* filter_size_regions: the regions smaller than min_size are discarded.
filter_size_regions(regions, size) == SelectSeq(regions, LAMBDA r : r.stop - r.start >= size)

\* r.tomask() summed over the regions
MaskSum(regions, n) ==
    [i \in 1..n |-> Cardinality({k \in DOMAIN regions :
                         regions[k].start <= i - 1 /\ i - 1 < regions[k].stop})]

FilteredLabelsUnfiltered(lab, size) == lab

\* filtered_labels
FilteredLabels(lab, size) ==
    IF size > 1
    THEN MaskSum(filter_size_regions(contiguous_regions(lab), size), Len(lab))
    ELSE lab

\* np.clip(labels, 0, 1)
Clip01(lab) == [i \in 1..Len(lab) |-> IF lab[i] < 0 THEN 0 ELSE IF lab[i] > 1 THEN 1 ELSE lab[i]]

\* the mask the iteration starts from
InitialWeights(lab, flt) == Clip01(lab)

\* vs*(vec1>0)
Gate(a, b) == [i \in 1..Len(a) |-> IF b[i] > 0 THEN a[i] ELSE 0]

\* vec1 - kgain*(vec1-vrec)
Relax(v1, vr) == [i \in 1..Len(v1) |-> v1[i] - ((v1[i] - vr[i]) \div KgainInv)]

RECURSIVE ExtendFromUnconditional(_, _, _)
ExtendFromUnconditional(w, vr, stop) ==
    IF stop < Len(w)
    THEN ExtendFromUnconditional([w EXCEPT ![stop + 1] = 1], vr, stop + 1)
    ELSE w

\* while stop < len(vec) and vrec[stop]>0.1: weights[stop] = 1; stop+=1
RECURSIVE ExtendFrom(_, _, _)
ExtendFrom(w, vr, stop) ==
    IF stop < Len(w) /\ vr[stop + 1] > Tenth
    THEN ExtendFrom([w EXCEPT ![stop + 1] = 1], vr, stop + 1)
    ELSE w

\* for o in objs: ...
RECURSIVE ExtendAll(_, _, _, _)
ExtendAll(w, vr, objs, k) ==
    IF k > Len(objs) THEN w
    ELSE ExtendAll(ExtendFrom(w, vr, objs[k].stop), vr, objs, k + 1)

\* ndimage.binary_erosion of a 1-D array: default structure, border_value=0
binary_erosion(w) ==
    [i \in 1..Len(w) |->
        IF w[i] # 0 /\ i > 1 /\ i < Len(w) /\ w[i - 1] # 0 /\ w[i + 1] # 0 THEN 1 ELSE 0]

\* np.where((vec1<0.5), wer, weights)
ErodeWhereLow(v1, w) ==
    LET wer == binary_erosion(w)
    IN  [i \in 1..Len(w) |-> IF v1[i] < Half THEN wer[i] ELSE w[i]]

\* vrec[vrec<0] = 0
ClampLow(v) == [i \in 1..Len(v) |-> IF v[i] < 0 THEN 0 ELSE v[i]]

OutputUngated(w, v) == [i \in 1..Len(v) |-> w[i] * v[i]]

\* weights*(vec>0)*vec
Output(w, v) == [i \in 1..Len(v) |-> IF v[i] > 0 THEN w[i] * v[i] ELSE 0]

\* np.zeros_like(vec)
ZerosLike(v) == [i \in 1..Len(v) |-> 0]

RecInit ==
    /\ vec \in [1..MaxLen -> Samples]
    /\ labels \in [1..MaxLen -> {0, 1}]
    /\ min_size \in 1..MaxMinSize
    /\ smoother \in Smoothers
    /\ filtered_labels = <<>> /\ weights = <<>> /\ vec1 = <<>> /\ vs = <<>>
    /\ vrec = <<>> /\ it = 0 /\ rout = <<>>
    /\ rpc = "start"

\* lines 709-714
RecFilter ==
    /\ rpc = "start"
    /\ filtered_labels' = FilteredLabels(labels, min_size)
    /\ rpc' = "check"
    /\ UNCHANGED exceptR
    /\ UNCHANGED <<vec, labels, min_size, smoother, weights, vec1, vs, vrec, it, rout>>

\* lines 716-717
RecReturnZeros ==
    /\ rpc = "check"
    /\ SumSeq(filtered_labels) = 0
    /\ rout' = ZerosLike(vec)
    /\ rpc' = "done"
    /\ UNCHANGED exceptR
    /\ UNCHANGED <<vec, labels, min_size, smoother, filtered_labels, weights, vec1, vs,
                   vrec, it>>

\* lines 718-727
RecPrepare ==
    /\ rpc = "check"
    /\ SumSeq(filtered_labels) # 0
    /\ vec1' = vec
    /\ vs' = Smooth(smoother, vec, WMedian)
    /\ weights' = InitialWeights(labels, filtered_labels)
    /\ vrec' = Smooth(smoother, Gate(vs', vec), WMedian)
    /\ it' = 0
    /\ rpc' = "loop"
    /\ UNCHANGED exceptR
    /\ UNCHANGED <<vec, labels, min_size, smoother, filtered_labels, rout>>

\* one pass of the loop of lines 729-742, niters = MaxIters
RecIterate ==
    /\ rpc = "loop"
    /\ it < MaxIters
    /\ LET v1 == Relax(vec1, vrec)
           wx == ExtendAll(weights, vrec, find_objects(weights), 1)
           w2 == ErodeWhereLow(v1, wx)
       IN  /\ vec1' = v1
           /\ weights' = w2
           /\ vrec' = ClampLow(Smooth(smoother, [i \in 1..Len(vs) |-> vs[i] * w2[i]],
                                      WMedianDefault))
    /\ it' = it + 1
    /\ UNCHANGED exceptR
    /\ UNCHANGED <<vec, labels, min_size, smoother, filtered_labels, vs, rout, rpc>>

\* lines 756-759, return_smoothed=False
RecReturn ==
    /\ rpc = "loop"
    /\ it = MaxIters
    /\ rout' = Output(weights, vec)
    /\ rpc' = "done"
    /\ UNCHANGED exceptR
    /\ UNCHANGED <<vec, labels, min_size, smoother, filtered_labels, weights, vec1, vs,
                   vrec, it>>

\* ------------------------------------- the tiling of signals_from_array_avg
\* the tiling scenario: a 100x100 domain, windows of 5, stride 2
ScenarioSide == 100
ScenarioPatch == 5
ScenarioStride == 2

GridInit ==
    /\ \/ /\ gshape = <<MaxT, ScenarioSide, ScenarioSide>>
          /\ gsize = ScenarioPatch
          /\ gstride = ScenarioStride
       \/ /\ gshape \in {MaxT} \X (1..MaxSide) \X (1..MaxSide)
          /\ gsize \in 1..MaxPatch
          /\ gstride \in 1..MaxStride
    /\ gtiles = <<>>
    /\ gpc = "start"

\* the loop "for sq in squares", as far as the windows go: the index sets of
\* patch = d[(slice(None),)+sq] for every sq
GridTiles(sh, step, psize) ==
    LET squares == Squares(sh, step, psize)
    IN  [k \in 1..Len(squares) |-> [s |-> squares[k],
                                    rows |-> WinRows(squares[k], sh),
                                    cols |-> WinCols(squares[k], sh)]]

GridTake ==
    /\ gpc = "start"
    /\ gtiles' = GridTiles(gshape, gstride, gsize)
    /\ gpc' = "done"
    /\ UNCHANGED exceptG
    /\ UNCHANGED <<gshape, gsize, gstride>>

\* ---------------------------------------------------------- EventCollection
\* Data values are in thousandths.
EvOne == 1000
\* threshold=0.025
EvThreshold == 25
\* c['peak']>0.05
PeakCut == 50

\* The structuring element ndimage.label uses by default: two voxels are
\* neighbours when they differ by one step along one axis.
Adjacent(x, y) == Abs(x[1] - y[1]) + Abs(x[2] - y[2]) + Abs(x[3] - y[3]) = 1

RECURSIVE Grow(_, _)
Grow(S, C) ==
    LET N == C \cup {y \in S : \E z \in C : Adjacent(y, z)}
    IN  IF N = C THEN C ELSE Grow(S, N)

\* The connected components of the voxel set S.
Components(S) == {Grow(S, {x}) : x \in S}

\* C order of the voxels.
LexLess(x, y) ==
    \/ x[1] < y[1]
    \/ x[1] = y[1] /\ x[2] < y[2]
    \/ x[1] = y[1] /\ x[2] = y[2] /\ x[3] < y[3]

FirstVoxel(C) == CHOOSE x \in C : \A y \in C : x = y \/ LexLess(x, y)

\* ndimage.label: the components are numbered 1, 2, ... in the order in which
\* a C-order scan meets them; 0 is the background.
label(S, sh) ==
    LET comps == Components(S)
        num(C) == 1 + Cardinality({D \in comps : LexLess(FirstVoxel(D), FirstVoxel(C))})
    IN  [x \in Voxels(sh) |->
            IF x \in S THEN num(CHOOSE C \in comps : x \in C) ELSE 0]

MinOf(S) == CHOOSE x \in S : \A y \in S : x <= y

\* ndimage.find_objects: the bounding box of every label, as three slices.
BoundingBox(V) ==
    [a \in 1..3 |-> Slice(MinOf({x[a] : x \in V}), MaxOf({x[a] : x \in V}) + 1)]

find_objects3(lab) ==
    LET nlab == MaxOf({lab[x] : x \in DOMAIN lab} \cup {0})
    IN  [k \in 1..nlab |-> BoundingBox({x \in DOMAIN lab : lab[x] = k})]

\* segment_events(dataset, threshold)
segment_events(dataset, sh, threshold) ==
    LET lab == label({x \in Voxels(sh) : dataset[x] > threshold}, sh)
    IN  [labels |-> lab, objs |-> find_objects3(lab)]

InBox(x, o) == \A a \in 1..3 : o[a].start <= x[a] /\ x[a] < o[a].stop

\* o[0].stop-o[0].start
event_duration(objs, k) == objs[k + 1][1].stop - objs[k + 1][1].start

\* self.labels[self.objs[k]]==k+1, as the set of voxels where it is True
event_volume_mask(lab, objs, k) ==
    {x \in DOMAIN lab : InBox(x, objs[k + 1]) /\ lab[x] = k + 1}

\* np.max(mask, axis=0)
project_event_mask(lab, objs, k) ==
    {<<x[2], x[3]>> : x \in event_volume_mask(lab, objs, k)}

event_area_unprojected(lab, objs, k) == Cardinality(event_volume_mask(lab, objs, k))

event_area(lab, objs, k) == Cardinality(project_event_mask(lab, objs, k))
event_volume(lab, objs, k) == Cardinality(event_volume_mask(lab, objs, k))

\* the voxels of data[o]
BoxVoxels(lab, objs, k) == {x \in DOMAIN lab : InBox(x, objs[k + 1])}

DataValuesBox(data, lab, objs, k) == [x \in BoxVoxels(lab, objs, k) |-> data[x]]

\* data[o][self.event_volume_mask(k)]
DataValues(data, lab, objs, k) == [x \in event_volume_mask(lab, objs, k) |-> data[x]]

\* fn = np.max and fn = np.mean, the mean as the fraction n/d
FnMax(vals) == MaxOf({vals[x] : x \in DOMAIN vals})
FnMean(vals) == [n |-> SumOver(vals, DOMAIN vals), d |-> Cardinality(DOMAIN vals)]

\* one element of self.coll
EventRecord(data, lab, objs, k) ==
    [duration |-> event_duration(objs, k),
     area     |-> event_area(lab, objs, k),
     volume   |-> event_volume(lab, objs, k),
     peak     |-> FnMax(DataValues(data, lab, objs, k)),
     avg      |-> FnMean(DataValues(data, lab, objs, k)),
     start    |-> objs[k + 1][1].start,
     idx      |-> k]

BuildColl(data, lab, objs) == [j \in 1..Len(objs) |-> EventRecord(data, lab, objs, j - 1)]

KeepNonStrict(c, md, ma) == c.duration >= md /\ c.peak > PeakCut /\ c.area > ma

Keep(c, md, ma) == c.duration > md /\ c.peak > PeakCut /\ c.area > ma

FilterCollRenumbered(coll, md, ma) ==
    LET f == SelectSeq(coll, LAMBDA c : Keep(c, md, ma))
    IN  [j \in 1..Len(f) |-> [f[j] EXCEPT !.idx = j - 1]]

\* self.filtered_coll
FilterColl(coll, md, ma) == SelectSeq(coll, LAMBDA c : Keep(c, md, ma))

RasterWriteBox(out, lab, objs, k) ==
    [x \in DOMAIN out |-> IF InBox(x, objs[k + 1]) THEN k ELSE out[x]]

\* cond = self.labels[o]==k+1; out[o][cond] = k
RasterWrite(out, lab, objs, k) ==
    [x \in DOMAIN out |-> IF x \in event_volume_mask(lab, objs, k) THEN k ELSE out[x]]

\* The inputs: one rectangular block, or one hook (a component whose bounding
\* box is the 2x2x2 cube at p but which leaves the cube's voxel p + <<0,0,1>>
\* and its neighbours free), of value 1.0, and at most one further voxel of
\* value 0.05 or 2.0.
EvShape == <<MaxEvT, MaxEvR, MaxEvC>>

EvBlocks(sh) ==
    {{x \in Voxels(sh) : t0 <= x[1] /\ x[1] <= t1 /\ r0 <= x[2] /\ x[2] <= r1
                         /\ c0 <= x[3] /\ x[3] <= c1} :
        t0 \in 0..(sh[1] - 1), t1 \in 0..(sh[1] - 1), r0 \in 0..(sh[2] - 1),
        r1 \in 0..(sh[2] - 1), c0 \in 0..(sh[3] - 1), c1 \in 0..(sh[3] - 1)} \ {{}}

Hook(p) ==
    {<<p[1] + 1, p[2] + 1, p[3] + 1>>, <<p[1] + 1, p[2] + 1, p[3]>>,
     <<p[1] + 1, p[2], p[3]>>, <<p[1], p[2] + 1, p[3]>>}

EvHooks(sh) ==
    {Hook(p) : p \in {x \in Voxels(sh) : x[1] + 1 < sh[1] /\ x[2] + 1 < sh[2]
                                         /\ x[3] + 1 < sh[3]}}

Scene(sh, body, extra, v) ==
    [x \in Voxels(sh) |-> IF x = extra THEN v ELSE IF x \in body THEN EvOne ELSE 0]

EvInit ==
    /\ eshape = EvShape
    /\ \E body \in EvBlocks(EvShape) \cup EvHooks(EvShape) :
          \/ eframes = Scene(EvShape, body, <<>>, 0)
          \/ \E extra \in Voxels(EvShape), v \in {PeakCut, 2 * EvOne} :
                eframes = Scene(EvShape, body, extra, v)
    /\ emin_duration \in 0..MaxMinDuration
    /\ emin_area \in 0..MaxMinArea
    /\ elabels = <<>> /\ eobjs = <<>> /\ ecoll = <<>> /\ efiltered = <<>>
    /\ eout = <<>> /\ ei = 0 /\ eresult = <<>>
    /\ epc = "start"

\* line 1054
EvSegment ==
    /\ epc = "start"
    /\ LET seg == segment_events(eframes, eshape, EvThreshold)
       IN  elabels' = seg.labels /\ eobjs' = seg.objs
    /\ epc' = "segmented"
    /\ UNCHANGED exceptE
    /\ UNCHANGED <<eframes, eshape, emin_duration, emin_area, ecoll, efiltered, eout,
                   ei, eresult>>

\* lines 1055-1062
EvCollect ==
    /\ epc = "segmented"
    /\ ecoll' = BuildColl(eframes, elabels, eobjs)
    /\ epc' = "collected"
    /\ UNCHANGED exceptE
    /\ UNCHANGED <<eframes, eshape, emin_duration, emin_area, elabels, eobjs, efiltered,
                   eout, ei, eresult>>

\* lines 1063-1066
EvFilter ==
    /\ epc = "collected"
    /\ efiltered' = FilterColl(ecoll, emin_duration, emin_area)
    /\ epc' = "built"
    /\ UNCHANGED exceptE
    /\ UNCHANGED <<eframes, eshape, emin_duration, emin_area, elabels, eobjs, ecoll,
                   eout, ei, eresult>>

\* to_filtered_array, lines 1085-1086
EvRasterStart ==
    /\ epc = "built"
    /\ eout' = [x \in DOMAIN elabels |-> 0]
    /\ ei' = 1
    /\ epc' = "raster"
    /\ UNCHANGED exceptE
    /\ UNCHANGED <<eframes, eshape, emin_duration, emin_area, elabels, eobjs, ecoll,
                   efiltered, eresult>>

\* one pass of the loop of lines 1087-1091
EvRasterStep ==
    /\ epc = "raster"
    /\ ei <= Len(efiltered)
    /\ eout' = RasterWrite(eout, elabels, eobjs, efiltered[ei].idx)
    /\ ei' = ei + 1
    /\ UNCHANGED exceptE
    /\ UNCHANGED <<eframes, eshape, emin_duration, emin_area, elabels, eobjs, ecoll,
                   efiltered, eresult, epc>>

\* line 1092
EvRasterReturn ==
    /\ epc = "raster"
    /\ ei > Len(efiltered)
    /\ eresult' = eout
    /\ epc' = "done"
    /\ UNCHANGED exceptE
    /\ UNCHANGED <<eframes, eshape, emin_duration, emin_area, elabels, eobjs, ecoll,
                   efiltered, eout, ei>>

\* ------------------------------------------------------------ rolling_sd_pd
\* ndimage.median_filter(v,20)
DetailsWindow == 20
\* 1.4826, in ten-thousandths
MadScale == 14826

\* np.pad(a, pad, mode='reflect'): the edge sample is not repeated
NpReflect(j, n) ==
    IF n = 1 THEN 0
    ELSE LET m == j % (2 * n - 2) IN IF m < n THEN m ELSE 2 * n - 2 - m

np_pad_reflect(a, pad) ==
    [i \in 1..(Len(a) + 2 * pad) |-> a[NpReflect(i - 1 - pad, Len(a)) + 1]]

\* Twice the median of the values of s: the sum of the two middle values of
\* an even number of values, twice the middle one of an odd number.
TwiceMedian(s) ==
    IF Len(s) % 2 = 0
    THEN Ranked(s, (Len(s) \div 2) - 1) + Ranked(s, Len(s) \div 2)
    ELSE 2 * Ranked(s, Len(s) \div 2)

\* pandas' s.rolling(window, center=True).median() on a series of numbers and
\* NaN (None here), with min_periods = window: the window of result i ends
\* (window - 1) // 2 places after i; a window that is empty, leaves the series
\* or holds a NaN gives NaN. The medians come out doubled.
rolling_median(s, window) ==
    [i \in 1..Len(s) |->
        LET hi == (i - 1) + ((window - 1) \div 2)
            lo == hi - window + 1
        IN  IF window = 0 \/ lo < 0 \/ hi > Len(s) - 1
               \/ \E j \in lo..hi : s[j + 1] = None
            THEN None
            ELSE Some(TwiceMedian([k \in 1..window |-> s[lo + k][1]]))]

\* (s - s.rolling(**rkw).median()).abs(), in halves
AbsDeviation(s, med) ==
    [i \in 1..Len(s) |-> IF med[i] = None THEN None ELSE Some(Abs(2 * s[i][1] - med[i][1]))]

\* a[start:stop] of Python, a negative bound counted from the end
PyBound(b, n) == IF b < 0 THEN (IF b + n < 0 THEN 0 ELSE b + n) ELSE Min2(b, n)
PySlice(a, start, stop) ==
    LET lo == PyBound(start, Len(a))
        hi == PyBound(stop, Len(a))
    IN  IF hi <= lo THEN <<>> ELSE [i \in 1..(hi - lo) |-> a[lo + i]]

\* lines 422-423: out, as fractions n/d (None for NaN); the rolling medians
\* are in quarters of the unit of v
RollingMad(padded, hw) ==
    LET s   == [i \in 1..Len(padded) |-> Some(padded[i])]
        mad == rolling_median(AbsDeviation(s, rolling_median(s, 2 * hw)), 2 * hw)
        cut == PySlice(mad, 2 * hw, -(2 * hw))
    IN  [i \in 1..Len(cut) |->
            IF cut[i] = None THEN None ELSE Some([n |-> MadScale * cut[i][1], d |-> 4 * 10000])]

\* out/correct_factor
Rescale(out, cf) ==
    [i \in 1..Len(out) |->
        IF out[i] = None THEN None ELSE Some([n |-> out[i][1].n, d |-> out[i][1].d * cf])]

\* The smoothers that stand for l2spline (imfun.filt.dctsplines): the identity,
\* and a linear smoother with the negative side lobes of a second-order
\* smoothing spline, weights (-1, 4, 10, 4, -1)/16, mirrored at the ends.
Splines == {"identity", "lobed"}

LobeWeights == <<-1, 4, 10, 4, -1>>

l2spline(kind, out) ==
    IF kind = "identity" THEN out
    ELSE [i \in 1..Len(out) |->
            IF \E k \in 1..5 : out[Reflect(i - 1 + k - 3, Len(out)) + 1] = None THEN None
            ELSE Some([n |-> SumSeq([k \in 1..5 |->
                                 LobeWeights[k] * out[Reflect(i - 1 + k - 3, Len(out)) + 1][1].n]),
                       d |-> 16 * out[i][1].d])]

SdInit ==
    /\ \E n \in 1..MaxSigLen : sv \in [1..n -> {0, 1}]
    /\ ssmooth \in BOOLEAN
    /\ sspline \in Splines
    /\ scf \in 1..MaxCorrect
    /\ sdetails = <<>> /\ shw = 0 /\ spadded = <<>> /\ sout = <<>>
    /\ sresult = <<>> /\ serr = None
    /\ spc = "start"

\* lines 411-417
SdPad ==
    /\ spc = "start"
    /\ LET med == median_filter(sv, DetailsWindow)
           det == [i \in 1..Len(sv) |-> sv[i] - med[i]]
           hw  == Len(det) \div 10
       IN  /\ sdetails' = det
           /\ shw' = hw
           /\ spadded' = np_pad_reflect(det, 2 * hw)
    /\ spc' = "padded"
    /\ UNCHANGED exceptS
    /\ UNCHANGED <<sv, ssmooth, sspline, scf, sout, sresult, serr>>

\* lines 419-423
SdRoll ==
    /\ spc = "padded"
    /\ sout' = RollingMad(spadded, shw)
    /\ spc' = "rolled"
    /\ UNCHANGED exceptS
    /\ UNCHANGED <<sv, ssmooth, sspline, scf, sdetails, shw, spadded, sresult, serr>>

\* line 433
SdScale ==
    /\ spc = "rolled"
    /\ sout' = Rescale(sout, scf)
    /\ spc' = "scaled"
    /\ UNCHANGED exceptS
    /\ UNCHANGED <<sv, ssmooth, sspline, scf, sdetails, shw, spadded, sresult, serr>>

\* lines 434-436
SdReturn ==
    /\ spc = "scaled"
    /\ sresult' = IF ssmooth THEN l2spline(sspline, sout) ELSE sout
    /\ spc' = "done"
    /\ UNCHANGED exceptS
    /\ UNCHANGED <<sv, ssmooth, sspline, scf, sdetails, shw, spadded, sout, serr>>

\* line 435 with an empty out: the smoother may refuse an array of length 0
SdSmoothRaise ==
    /\ spc = "scaled"
    /\ ssmooth /\ Len(sout) = 0
    /\ serr' = Some([exc |-> "ValueError"])
    /\ spc' = "done"
    /\ UNCHANGED exceptS
    /\ UNCHANGED <<sv, ssmooth, sspline, scf, sdetails, shw, spadded, sout, sresult>>

\* --------------------------------------------------------- baseline_als_spl
\* len(a[start:stop])
PySliceLen(n, start, stop) ==
    LET lo == PyBound(start, n)
        hi == PyBound(stop, n)
    IN  IF hi <= lo THEN 0 ELSE hi - lo

\* The length of what rolling_sd_pd(details, input_is_details=True) returns
\* for len(details) = n: hw = int(n/10), pad by 2*hw, cut [2*hw:-2*hw].
RollingSdLen(n) ==
    LET hw == n \div 10 IN PySliceLen(n + 4 * hw, 2 * hw, -(2 * hw))

\* Whether numpy can broadcast two 1-D arrays of lengths m and n.
Broadcastable(m, n) == m = n \/ m = 1 \/ n = 1

AlsInit ==
    /\ alen \in 1..MaxAlsLen
    /\ asmooth \in 1..MaxSmooth
    /\ aniter \in 0..MaxNiter
    /\ arsdGiven \in BOOLEAN
    /\ anpad = 0 /\ aL = 0 /\ arsdLen = 0 /\ ai = 0 /\ acalls = 0
    /\ azDefined = FALSE /\ azprev = FALSE
    /\ aresult = None /\ aerr = None
    /\ apc = "start"

\* lines 551-556: npad = ceil(smooth), y = np.pad(y,npad,"reflect"), L = len(y)
AlsPad ==
    /\ apc = "start"
    /\ anpad' = asmooth
    /\ aL' = alen + 2 * asmooth
    /\ apc' = "padded"
    /\ UNCHANGED exceptA
    /\ UNCHANGED <<alen, asmooth, aniter, arsdGiven, arsdLen, ai, acalls, azDefined, azprev,
                   aresult, aerr>>

\* lines 558-569: rsd from rolling_sd_pd or from the caller, then ys, s2, zprev
AlsRsd ==
    /\ apc = "padded"
    /\ arsdLen' = IF arsdGiven THEN alen + 2 * anpad ELSE RollingSdLen(aL)
    /\ azprev' = FALSE
    /\ apc' = "loop"
    /\ UNCHANGED exceptA
    /\ UNCHANGED <<alen, asmooth, aniter, arsdGiven, anpad, aL, ai, acalls, azDefined,
                   aresult, aerr>>

\* line 562: rolling_sd_pd hands an empty array to l2spline, which may refuse it
AlsRsdRaise ==
    /\ apc = "padded"
    /\ ~arsdGiven /\ RollingSdLen(aL) = 0
    /\ aerr' = Some([exc |-> "ValueError", at |-> "rolling_sd_pd"])
    /\ apc' = "done"
    /\ UNCHANGED exceptA
    /\ UNCHANGED <<alen, asmooth, aniter, arsdGiven, anpad, aL, arsdLen, ai, acalls,
                   azDefined, azprev, aresult>>

\* one pass of the loop of lines 570-583 that goes on: the smoother is called,
\* y-z is compared with k*rsd, and either zprev is None or the relative change
\* is not below eps
AlsIterate ==
    /\ apc = "loop"
    /\ ai < aniter
    /\ Broadcastable(aL, arsdLen)
    /\ acalls' = acalls + 1
    /\ azDefined' = TRUE
    /\ azprev' = TRUE
    /\ ai' = ai + 1
    /\ UNCHANGED exceptA
    /\ UNCHANGED <<alen, asmooth, aniter, arsdGiven, anpad, aL, arsdLen, aresult, aerr, apc>>

\* a pass in which abs(y-z) > k*rsd cannot be formed: the shapes do not match
AlsIterateRaise ==
    /\ apc = "loop"
    /\ ai < aniter
    /\ ~Broadcastable(aL, arsdLen)
    /\ acalls' = acalls + 1
    /\ azDefined' = TRUE
    /\ aerr' = Some([exc |-> "ValueError", at |-> "abs(y-z) > k*rsd"])
    /\ apc' = "done"
    /\ UNCHANGED exceptA
    /\ UNCHANGED <<alen, asmooth, aniter, arsdGiven, anpad, aL, arsdLen, ai, azprev, aresult>>

\* a pass that ends in the break of lines 580-582: the relative change is below eps
AlsBreak ==
    /\ apc = "loop"
    /\ ai < aniter
    /\ Broadcastable(aL, arsdLen)
    /\ azprev
    /\ acalls' = acalls + 1
    /\ ai' = ai + 1
    /\ apc' = "after"
    /\ UNCHANGED exceptA
    /\ UNCHANGED <<alen, asmooth, aniter, arsdGiven, anpad, aL, arsdLen, azDefined, azprev,
                   aresult, aerr>>

\* range(niter) is exhausted
AlsExhausted ==
    /\ apc = "loop"
    /\ ai = aniter
    /\ apc' = "after"
    /\ UNCHANGED exceptA
    /\ UNCHANGED <<alen, asmooth, aniter, arsdGiven, anpad, aL, arsdLen, ai, acalls,
                   azDefined, azprev, aresult, aerr>>

\* lines 584-588: z = smoother(np.min((z, s2),0),smooth); return z[npad:-npad]
AlsReturn ==
    /\ apc = "after"
    /\ azDefined
    /\ aresult' = Some(PySliceLen(aL, anpad, -anpad))
    /\ apc' = "done"
    /\ UNCHANGED exceptA
    /\ UNCHANGED <<alen, asmooth, aniter, arsdGiven, anpad, aL, arsdLen, ai, acalls,
                   azDefined, azprev, aerr>>

\* line 584 when the loop body never ran: z is not bound
AlsReturnRaise ==
    /\ apc = "after"
    /\ ~azDefined
    /\ aerr' = Some([exc |-> "UnboundLocalError", at |-> "np.min((z, s2),0)"])
    /\ apc' = "done"
    /\ UNCHANGED exceptA
    /\ UNCHANGED <<alen, asmooth, aniter, arsdGiven, anpad, aL, arsdLen, ai, acalls,
                   azDefined, azprev, aresult>>

\* ------------- simple_pipeline_, simple_get_baselines, tmvm_get_baselines
Producers == {"simple_pipeline_", "simple_get_baselines", "tmvm_get_baselines"}
\* the two bias-corrected baselines
Getters == {"simple_get_baselines", "tmvm_get_baselines"}

\* percentile_filter(res, plow, smooth_level) of tmvm_baseline
Plow == 25
SmoothLevel == 100
\* th of simple_get_baselines
NoiseThreshold == 3

\* The patch signals offered: a level of 0 or 1 with a unit pulse of width w
\* at a (the level 0 with w = 0 is the all-zero signal), and the level 1 with
\* a dip to 0 of width w at a.
Pulse(n, level, a, w) == [i \in 1..n |-> level + (IF a <= i /\ i < a + w THEN 1 ELSE 0)]
Dip(n, a, w) == [i \in 1..n |-> IF a <= i /\ i < a + w THEN 0 ELSE 1]

ProdSignals ==
    UNION {{Pulse(n, level, a, w) : level \in {0, 1}, a \in 1..n, w \in 0..MaxPulse}
             \cup {Dip(n, a, w) : a \in 1..n, w \in 1..MaxPulse} :
           n \in 1..MaxProdLen}

\* any(y) of Python on an array of numbers, and on an array of booleans
AnyNonzero(y) == \E i \in 1..Len(y) : y[i] # 0
AnyTrue(l) == \E i \in 1..Len(l) : l[i]

\* a[mask] of numpy, mask a boolean array as long as a
RECURSIVE Compress(_, _)
Compress(a, mask) ==
    IF Len(a) = 0 THEN <<>>
    ELSE (IF Head(mask) THEN <<Head(a)>> ELSE <<>>) \o Compress(Tail(a), Tail(mask))

\* np.zeros_like(y), as fractions
zeros_like(y) == [i \in 1..Len(y) |-> Some([n |-> 0, d |-> 1])]

\* rolling_sd_pd(v) with its defaults (correct_factor 1, smooth_output True),
\* l2spline being the smoother kind
rolling_sd_pd(v, kind) ==
    LET med == median_filter(v, DetailsWindow)
        det == [i \in 1..Len(v) |-> v[i] - med[i]]
        hw  == Len(det) \div 10
    IN  l2spline(kind, Rescale(RollingMad(np_pad_reflect(det, 2 * hw), hw), 1))

\* ndimage.percentile_filter(v, percentile, size) on a 1-D array
percentile_filter(v, percentile, size) ==
    [i \in 1..Len(v) |->
        Ranked([k \in 1..size |-> v[Reflect(i - 1 - (size \div 2) + (k - 1), Len(v)) + 1]],
               (size * percentile) \div 100)]

\* process_tmvm(y, k=3, rec_variant=1): mvm.find_objects reports no object
\* (r is zeros_like(v)) or objects that carry the whole positive part of v
process_tmvm(v, objs) ==
    IF objs = "none" THEN ZerosLike(v)
    ELSE [i \in 1..Len(v) |-> IF v[i] < 0 THEN 0 ELSE v[i]]

\* lines 769-774: y with the bias taken off, in halves
Unbias(y) ==
    LET tm   == TwiceMedian(y)
        low0 == [i \in 1..Len(y) |-> 4 * y[i] < 5 * tm]
        low  == IF AnyTrue(low0) THEN low0 ELSE [i \in 1..Len(y) |-> TRUE]
        bias == TwiceMedian(Compress(y, low))
    IN  [i \in 1..Len(y) |-> IF bias > 0 THEN 2 * y[i] - bias ELSE 2 * y[i]]

\* the shape of a op b under numpy's broadcasting, both 1-D
BroadcastLen(m, n) == IF m = n THEN m ELSE IF m = 1 THEN n ELSE m

\* What a labeler may return for a signal of n samples: nothing active, or
\* one run of active samples.
LabelChoices(n) ==
    {[i \in 1..n |-> FALSE]}
      \cup {[i \in 1..n |-> a <= i /\ i < a + w] : a \in 1..n, w \in 1..MaxPulse}

\* b of tmvm_baseline (line 449), as fractions
Baseline(res, kind) ==
    LET pf == percentile_filter(res, Plow, SmoothLevel)
    IN  l2spline(kind, [i \in 1..Len(res) |-> Some([n |-> pf[i], d |-> 1])])

\* d = res - b, as numerators over the denominator the smoother gives every
\* sample of b (1 or 16)
Residual(res, b) == [i \in 1..Len(res) |-> res[i] * b[i][1].d - b[i][1].n]

\* d < th*ns, both as long as d; a comparison with NaN is False
BelowNoise(d, ns) ==
    [i \in 1..Len(d) |->
        /\ ns[i] # None
        /\ d[i] * ns[i][1].d < NoiseThreshold * ns[i][1].n]

\* d <= th*ns of tmvm_get_baselines
AtMostNoise(d, ns) ==
    [i \in 1..Len(d) |->
        /\ ns[i] # None
        /\ d[i] * ns[i][1].d <= NoiseThreshold * ns[i][1].n]

\* b + np.median(sel): the median of an empty selection is NaN
ShiftBy(b, sel) ==
    [i \in 1..Len(b) |->
        IF Len(sel) = 0 THEN None
        ELSE Some([n |-> 2 * b[i][1].n + TwiceMedian(sel), d |-> 2 * b[i][1].d])]

\* b + np.median(d[d<th*ns])
ShiftedBaseline(b, d, ns) == ShiftBy(b, Compress(d, BelowNoise(d, ns)))

\* b + np.median(d[d<=th*ns])
ShiftedBaselineTmvm(b, d, ns) == ShiftBy(b, Compress(d, AtMostNoise(d, ns)))

ProdInit ==
    /\ qfn \in Producers
    /\ qy \in ProdSignals
    /\ qspline \in Splines
    /\ qobjs \in {"none", "all"}
    /\ qns = <<>> /\ qyb = <<>> /\ qvnlen = 0 /\ qlabels = None
    /\ qres = <<>> /\ qb = <<>> /\ qresult = None /\ qerr = None
    /\ qpc = "start"

\* lines 766-767
SpZeroInput ==
    /\ qpc = "start" /\ qfn = "simple_pipeline_"
    /\ ~AnyNonzero(qy)
    /\ qresult' = Some([from |-> "zeros_like", val |-> zeros_like(qy)])
    /\ qpc' = "done"
    /\ UNCHANGED exceptQ
    /\ UNCHANGED <<qfn, qy, qspline, qobjs, qns, qyb, qvnlen, qlabels, qres, qb, qerr>>

\* line 768
SpNoise ==
    /\ qpc = "start" /\ qfn = "simple_pipeline_"
    /\ AnyNonzero(qy)
    /\ qns' = rolling_sd_pd(qy, qspline)
    /\ qpc' = "noise"
    /\ UNCHANGED exceptQ
    /\ UNCHANGED <<qfn, qy, qspline, qobjs, qyb, qvnlen, qlabels, qres, qb, qresult, qerr>>

\* line 768, a signal of fewer than 10 samples: out is empty inside
\* rolling_sd_pd and the smoother may refuse an array of length 0
SpNoiseRaise ==
    /\ qpc = "start" /\ qfn = "simple_pipeline_"
    /\ AnyNonzero(qy)
    /\ Len(qy) \div 10 = 0
    /\ qerr' = Some([exc |-> "ValueError", at |-> "rolling_sd_pd"])
    /\ qpc' = "done"
    /\ UNCHANGED exceptQ
    /\ UNCHANGED <<qfn, qy, qspline, qobjs, qns, qyb, qvnlen, qlabels, qres, qb, qresult>>

\* lines 769-774
SpBias ==
    /\ qpc = "noise" /\ qfn = "simple_pipeline_"
    /\ qyb' = Unbias(qy)
    /\ qpc' = "bias"
    /\ UNCHANGED exceptQ
    /\ UNCHANGED <<qfn, qy, qspline, qobjs, qns, qvnlen, qlabels, qres, qb, qresult, qerr>>

\* line 775
SpDivide ==
    /\ qpc = "bias"
    /\ Broadcastable(Len(qyb), Len(qns))
    /\ qvnlen' = BroadcastLen(Len(qyb), Len(qns))
    /\ qpc' = "normalised"
    /\ UNCHANGED exceptQ
    /\ UNCHANGED <<qfn, qy, qspline, qobjs, qns, qyb, qlabels, qres, qb, qresult, qerr>>

\* line 775: the operands of y/ns cannot be broadcast together
SpDivideRaise ==
    /\ qpc = "bias"
    /\ ~Broadcastable(Len(qyb), Len(qns))
    /\ qerr' = Some([exc |-> "ValueError", at |-> "y/ns"])
    /\ qpc' = "done"
    /\ UNCHANGED exceptQ
    /\ UNCHANGED <<qfn, qy, qspline, qobjs, qns, qyb, qvnlen, qlabels, qres, qb, qresult>>

\* lines 777-779
SpLabel ==
    /\ qpc = "normalised"
    /\ \E l \in LabelChoices(qvnlen) : qlabels' = Some(l)
    /\ qpc' = "labelled"
    /\ UNCHANGED exceptQ
    /\ UNCHANGED <<qfn, qy, qspline, qobjs, qns, qyb, qvnlen, qres, qb, qresult, qerr>>

\* lines 780-781
SpNoLabels ==
    /\ qpc = "labelled"
    /\ ~AnyTrue(qlabels[1])
    /\ qresult' = Some([from |-> "zeros_like", val |-> zeros_like(qyb)])
    /\ qpc' = "done"
    /\ UNCHANGED exceptQ
    /\ UNCHANGED <<qfn, qy, qspline, qobjs, qns, qyb, qvnlen, qlabels, qres, qb, qerr>>

\* line 782: the product sp_rec_with_labels(vn, labels)*ns is returned; its
\* samples are not evaluated here
SpReconstruct ==
    /\ qpc = "labelled"
    /\ AnyTrue(qlabels[1])
    /\ qresult' = Some([from |-> "sp_rec_with_labels", val |-> <<>>])
    /\ qpc' = "done"
    /\ UNCHANGED exceptQ
    /\ UNCHANGED <<qfn, qy, qspline, qobjs, qns, qyb, qvnlen, qlabels, qres, qb, qerr>>

\* line 457 and tmvm_baseline, lines 444-449
GbBaseline ==
    /\ qpc = "start" /\ qfn \in Getters
    /\ LET rec == process_tmvm(qy, qobjs)
           res == [i \in 1..Len(qy) |-> qy[i] - rec[i]]
       IN  /\ qres' = res
           /\ qb' = Baseline(res, qspline)
    /\ qpc' = "baseline"
    /\ UNCHANGED exceptQ
    /\ UNCHANGED <<qfn, qy, qspline, qobjs, qns, qyb, qvnlen, qlabels, qresult, qerr>>

\* tmvm_baseline, lines 450-451
GbNoise ==
    /\ qpc = "baseline"
    /\ qns' = rolling_sd_pd(Residual(qres, qb), qspline)
    /\ qpc' = "noise"
    /\ UNCHANGED exceptQ
    /\ UNCHANGED <<qfn, qy, qspline, qobjs, qyb, qvnlen, qlabels, qres, qb, qresult, qerr>>

\* line 450, a signal of fewer than 10 samples: the smoother may refuse the
\* empty out of rolling_sd_pd
GbNoiseRaise ==
    /\ qpc = "baseline"
    /\ Len(qres) \div 10 = 0
    /\ qerr' = Some([exc |-> "ValueError", at |-> "rolling_sd_pd"])
    /\ qpc' = "done"
    /\ UNCHANGED exceptQ
    /\ UNCHANGED <<qfn, qy, qspline, qobjs, qns, qyb, qvnlen, qlabels, qres, qb, qresult>>

\* lines 458-459
GbReturn ==
    /\ qpc = "noise" /\ qfn \in Getters
    /\ Len(qns) = Len(qres)
    /\ qresult' = Some([from |-> "baseline",
                        val |-> IF qfn = "simple_get_baselines"
                                THEN ShiftedBaseline(qb, Residual(qres, qb), qns)
                                ELSE ShiftedBaselineTmvm(qb, Residual(qres, qb), qns)])
    /\ qpc' = "done"
    /\ UNCHANGED exceptQ
    /\ UNCHANGED <<qfn, qy, qspline, qobjs, qns, qyb, qvnlen, qlabels, qres, qb, qerr>>

\* line 459 with ns of another length than d: d < th*ns cannot be broadcast,
\* or (one sample against none) gives a mask that does not fit d
GbReturnRaise ==
    /\ qpc = "noise" /\ qfn \in Getters
    /\ Len(qns) # Len(qres)
    /\ qerr' = Some([exc |-> IF Broadcastable(Len(qres), Len(qns))
                             THEN "IndexError" ELSE "ValueError",
                     at |-> "d[d<th*ns]"])
    /\ qpc' = "done"
    /\ UNCHANGED exceptQ
    /\ UNCHANGED <<qfn, qy, qspline, qobjs, qns, qyb, qvnlen, qlabels, qres, qb, qresult>>

\* ------------------------------------ baseline_als_spl: the reweighting loop
\* the defaults p=0.001, asymm_ratio=0.9, k=0.5, eps=1e-4
PInv == 1000
AsymmTenths == 9
KInv == 2
EpsInv == 10000

\* What the smoother may return for a signal of n samples: a level c, with
\* or without one more unit on the first sample.
Zs(n) ==
    {[i \in 1..n |-> c + (IF i = 1 THEN a ELSE 0)] : c \in 0..MaxZ, a \in {0, 1}}

\* lines 572-577 for one sample, d = y - z and s = rsd, in units of
\* 1/(10*PInv): w = p*(1-r)*clip_asymm + (1-p)*(~clip_symm) + p*r*clip_asymm2
WeightOf(d, s) ==
    (IF KInv * d > s THEN 10 - AsymmTenths ELSE 0)
      + (IF ~(KInv * Abs(d) > s) THEN (PInv - 1) * 10 ELSE 0)
      + (IF KInv * d <= -s THEN AsymmTenths ELSE 0)

\* lines 572-579: w, then w[:npad] = (1-p) and w[-npad:] = (1-p), npad >= 1
Reweight(y, z, rsd, npad) ==
    [i \in 1..Len(y) |->
        IF i <= npad \/ i > Len(y) - npad THEN (PInv - 1) * 10
        ELSE WeightOf(y[i] - z[i], rsd[i])]

\* norm(v)**2
NormSq(v) == SumSeq([i \in 1..Len(v) |-> v[i] * v[i]])

ConvergedNonStrict(z, zp) ==
    NormSq([i \in 1..Len(z) |-> z[i] - zp[i]]) <= NormSq(zp) \div (EpsInv * EpsInv)

\* norm(z-zprev)/norm(zprev) < eps; with norm(zprev) = 0 the quotient is nan
\* or inf and the comparison is False. Squared, and divided through to stay
\* within the machine integers: a*x < n iff x <= (n-1) div a, for n >= 1.
Converged(z, zp) ==
    /\ NormSq(zp) # 0
    /\ NormSq([i \in 1..Len(z) |-> z[i] - zp[i]]) <= (NormSq(zp) - 1) \div (EpsInv * EpsInv)

LoopInit ==
    /\ \E n \in 1..MaxWLen :
          /\ by \in [1..n -> {0, 1}]
          /\ brsd \in [1..n -> {0, 2}]
    /\ bnpad \in 1..MaxSmooth
    /\ bniter \in 1..MaxNiter
    /\ bw = <<>> /\ bz = None /\ bzprev = None /\ bi = 0 /\ bresult = None
    /\ bpc = "start"

\* lines 551-569, rsd given
LoopPad ==
    /\ bpc = "start"
    /\ by' = np_pad_reflect(by, bnpad)
    /\ brsd' = np_pad_reflect(brsd, bnpad)
    /\ bw' = [i \in 1..(Len(by) + 2 * bnpad) |-> 10 * PInv]
    /\ bpc' = "loop"
    /\ UNCHANGED exceptB
    /\ UNCHANGED <<bnpad, bniter, bz, bzprev, bi, bresult>>

\* one pass of the loop of lines 570-583 that does not break
LoopPass ==
    /\ bpc = "loop" /\ bi < bniter
    /\ \E z \in Zs(Len(by)) :
          /\ ~(bzprev # None /\ Converged(z, bzprev[1]))
          /\ bz' = Some(z)
          /\ bw' = Reweight(by, z, brsd, bnpad)
          /\ bzprev' = Some(z)
    /\ bi' = bi + 1
    /\ UNCHANGED exceptB
    /\ UNCHANGED <<by, brsd, bnpad, bniter, bresult, bpc>>

\* one pass of the loop that ends in the break of line 582
LoopPassBreak ==
    /\ bpc = "loop" /\ bi < bniter
    /\ \E z \in Zs(Len(by)) :
          /\ bzprev # None /\ Converged(z, bzprev[1])
          /\ bz' = Some(z)
          /\ bw' = Reweight(by, z, brsd, bnpad)
    /\ bi' = bi + 1
    /\ bpc' = "after"
    /\ UNCHANGED exceptB
    /\ UNCHANGED <<by, brsd, bnpad, bniter, bzprev, bresult>>

\* range(niter) is used up
LoopExhausted ==
    /\ bpc = "loop" /\ bi = bniter
    /\ bpc' = "after"
    /\ UNCHANGED exceptB
    /\ UNCHANGED <<by, brsd, bnpad, bniter, bw, bz, bzprev, bi, bresult>>

\* lines 584-588, correct_skew=False
LoopReturn ==
    /\ bpc = "after"
    /\ \E z \in Zs(Len(by)) :
          /\ bz' = Some(z)
          /\ bresult' = Some(PySlice(z, bnpad, -bnpad))
    /\ bpc' = "done"
    /\ UNCHANGED exceptB
    /\ UNCHANGED <<by, brsd, bnpad, bniter, bw, bzprev, bi>>

\* ------------------------------ allocation, aliasing and in-place writes
\* A statement binds dst to a newly allocated array computed from src (op
\* "new": np.array, np.copy, np.clip, np.pad, np.zeros, arithmetic, a library
\* call), binds dst to the array src is bound to (op "view": plain
\* assignment, basic slicing, reshape), stores into the array dst is bound to
\* (op "write": x[...] = ..., +=, /=, append), or returns src (op "ret").
New(dst, src) == [op |-> "new", dst |-> dst, src |-> src]
View(dst, src) == [op |-> "view", dst |-> dst, src |-> src]
Write(dst) == [op |-> "write", dst |-> dst, src |-> ""]
Ret(src) == [op |-> "ret", dst |-> "", src |-> src]

RECURSIVE Rep(_, _)
Rep(body, n) == IF n = 0 THEN <<>> ELSE body \o Rep(body, n - 1)

\* signals_from_array_avg(data, ...), n windows
signals_from_array_avg_stms(n) ==
    <<New("d", "data"), New("squares", ""), New("w", ""), New("w", "w"), New("acc", "")>>
      \o Rep(<<View("patch", "d"), View("wclip", "w"), New("signal", "patch"),
               View("wr", "wclip"), Write("acc")>>, n)
      \o <<Ret("acc")>>

\* combine_weighted_signals(collection, shape), n triples (v, s, w)
combine_weighted_signals_stms(n) ==
    <<New("out_data", ""), New("counts", "")>>
      \o Rep(<<View("wx", "w"), New("tmp", "v"), Write("out_data"), Write("counts")>>, n)
      \o <<Write("out_data"), Ret("out_data")>>

\* patch_pca_denoise2(data, ...), n locations
patch_pca_denoise2_stms(n) ==
    <<New("out", ""), New("counts", ""), New("mask", "")>>
      \o Rep(<<View("patch", "data"), View("patch", "patch"), New("u", "patch"),
               New("ux", "u"), New("vhx", "u"), New("proj", "ux"),
               Write("out"), Write("counts")>>, n)
      \o <<New("out", "out"), Write("out"), Ret("out")>>

\* sp_rec_with_labels(vec, labels, ...): min_size > 1 or not, no labelled run
\* left or some, n passes of the loop, return_smoothed or not
sp_rec_with_labels_stms(filter, zero, n, smoothed) ==
    (IF filter
     THEN <<New("regions", "labels"), New("regions", "regions"),
            New("filtered_labels", "labels")>>
     ELSE <<View("filtered_labels", "labels")>>)
      \o (IF zero THEN <<New("out", "vec"), Ret("out")>>
          ELSE <<New("vec1", "vec"), New("vs", "vec1"), New("weights", "labels"),
                 New("vrec", "vs")>>
                 \o Rep(<<New("vec1", "vec1"), New("labs", "weights"), New("objs", "labs"),
                          Write("weights"), New("wer", "weights"),
                          New("weights", "weights"), New("vrec", "vs"), Write("vrec")>>, n)
                 \o (IF smoothed THEN <<Ret("vrec")>>
                     ELSE <<New("out", "weights"), Ret("out")>>))

\* baseline_als_spl(y, ..., rsd, ...): rsd given or None, n >= 1 passes of the
\* loop, correct_skew or not
baseline_als_spl_stms(given, n, skew) ==
    <<New("y", "y"), New("w", ""), New("rsd", IF given THEN "rsd" ELSE "y"),
      New("ys", "y"), New("s2", "y")>>
      \o Rep(<<New("z", "ys"), New("clip_symm", "y"), New("clip_asymm", "y"),
               New("clip_asymm2", "y"), New("w", "clip_asymm"), Write("w"), Write("w"),
               View("zprev", "z")>>, n)
      \o <<New("z", "z")>>
      \o (IF skew THEN <<Write("z")>> ELSE <<>>)
      \o <<View("out", "z"), Ret("out")>>

\* The calls offered: the operation, its array arguments, its statements.
HeapCalls ==
    {[fn |-> "signals_from_array_avg", args |-> <<"data">>,
      stms |-> signals_from_array_avg_stms(n)] : n \in 0..MaxUnroll}
    \cup {[fn |-> "combine_weighted_signals", args |-> <<"collection", "v", "w">>,
           stms |-> combine_weighted_signals_stms(n)] : n \in 0..MaxUnroll}
    \cup {[fn |-> "patch_pca_denoise2", args |-> <<"data">>,
           stms |-> patch_pca_denoise2_stms(n)] : n \in 0..MaxUnroll}
    \cup {[fn |-> "sp_rec_with_labels", args |-> <<"vec", "labels">>,
           stms |-> sp_rec_with_labels_stms(f, z, n, s)] :
             f \in BOOLEAN, z \in BOOLEAN, n \in 0..MaxUnroll, s \in BOOLEAN}
    \cup {[fn |-> "baseline_als_spl", args |-> IF g THEN <<"y", "rsd">> ELSE <<"y">>,
           stms |-> baseline_als_spl_stms(g, n, s)] :
             g \in BOOLEAN, n \in 1..MaxUnroll, s \in BOOLEAN}

CellOfAliasing(op, src, fresh) == IF src # 0 THEN src ELSE fresh

\* The array a statement binds its target to: a view shares the array of its
\* source, everything else is a newly allocated array.
CellOf(op, src, fresh) == IF op = "view" THEN src ELSE fresh

\* the array a name is bound to, 0 when it is not an array in scope
Bound(env, name) == IF name \in DOMAIN env THEN env[name] ELSE 0

HeapInit ==
    /\ \E call \in HeapCalls :
          /\ hfn = call.fn
          /\ hprog = call.stms
          /\ henv = [a \in {call.args[k] : k \in 1..Len(call.args)} |->
                        CHOOSE k \in 1..Len(call.args) : call.args[k] = a]
          /\ hheap = [k \in 1..Len(call.args) |-> 0]
          /\ howned = 1..Len(call.args)
    /\ hip = 0 /\ hresult = 0
    /\ hpc = "run"

\* dst = <an expression that allocates>
HeapNew ==
    /\ hpc = "run" /\ hip < Len(hprog) /\ hprog[hip + 1].op = "new"
    /\ LET st == hprog[hip + 1]
           c  == CellOf(st.op, Bound(henv, st.src), Len(hheap) + 1)
       IN  /\ henv' = (st.dst :> c) @@ henv
           /\ hheap' = IF c > Len(hheap) THEN Append(hheap, 0) ELSE hheap
    /\ hip' = hip + 1
    /\ UNCHANGED exceptH
    /\ UNCHANGED <<hfn, hprog, howned, hresult, hpc>>

\* dst = src, dst = src[a:b], dst = src.reshape(...)
HeapView ==
    /\ hpc = "run" /\ hip < Len(hprog) /\ hprog[hip + 1].op = "view"
    /\ LET st == hprog[hip + 1]
       IN  henv' = (st.dst :> CellOf(st.op, Bound(henv, st.src), Len(hheap) + 1)) @@ henv
    /\ hip' = hip + 1
    /\ UNCHANGED exceptH
    /\ UNCHANGED <<hfn, hprog, hheap, howned, hresult, hpc>>

\* dst[...] = ..., dst += ..., dst /= ..., dst.append(...)
HeapWrite ==
    /\ hpc = "run" /\ hip < Len(hprog) /\ hprog[hip + 1].op = "write"
    /\ hheap' = [hheap EXCEPT ![henv[hprog[hip + 1].dst]] = @ + 1]
    /\ hip' = hip + 1
    /\ UNCHANGED exceptH
    /\ UNCHANGED <<hfn, hprog, henv, howned, hresult, hpc>>

\* return src
HeapReturn ==
    /\ hpc = "run" /\ hip < Len(hprog) /\ hprog[hip + 1].op = "ret"
    /\ hresult' = henv[hprog[hip + 1].src]
    /\ hip' = hip + 1
    /\ hpc' = "done"
    /\ UNCHANGED exceptH
    /\ UNCHANGED <<hfn, hprog, henv, hheap, howned>>

\* -------------------------------------------------------- specifications
\* Each specification runs one part of the program; the others stay idle.
PipeIdle ==
    /\ shape = <<>> /\ frames = <<>> /\ stride = 0 /\ patch_size = 0
    /\ pipeline = <<>> /\ njobs = 0 /\ pc = "idle" /\ collection = <<>>
    /\ nextChunk = 0 /\ workers = <<>> /\ mapValue = <<>> /\ mapSuccess = TRUE
    /\ numberLeft = 0 /\ doneOrder = <<>> /\ recsb = <<>> /\ out_data = <<>>
    /\ counts = <<>> /\ ci = 0 /\ result = <<>> /\ err = None

NormIdle ==
    /\ nroutine = "" /\ nshape = <<>> /\ nlevel = <<>> /\ nstride = 0 /\ nsize = 0
    /\ nitems = <<>> /\ nk = 0 /\ nout = <<>> /\ ncounts = <<>> /\ nresult = <<>>
    /\ npc = "idle"

RecIdle ==
    /\ vec = <<>> /\ labels = <<>> /\ min_size = 0 /\ smoother = ""
    /\ filtered_labels = <<>> /\ weights = <<>> /\ vec1 = <<>> /\ vs = <<>>
    /\ vrec = <<>> /\ it = 0 /\ rout = <<>> /\ rpc = "idle"

GridIdle ==
    /\ gshape = <<>> /\ gsize = 0 /\ gstride = 0 /\ gtiles = <<>>
    /\ gpc = "idle"

AlsIdle ==
    /\ alen = 0 /\ asmooth = 0 /\ aniter = 0 /\ arsdGiven = FALSE /\ anpad = 0
    /\ aL = 0 /\ arsdLen = 0 /\ ai = 0 /\ acalls = 0 /\ azDefined = FALSE
    /\ azprev = FALSE /\ aresult = None /\ aerr = None /\ apc = "idle"

SdIdle ==
    /\ sv = <<>> /\ ssmooth = FALSE /\ sspline = "" /\ scf = 0 /\ sdetails = <<>>
    /\ shw = 0 /\ spadded = <<>> /\ sout = <<>> /\ sresult = <<>> /\ serr = None
    /\ spc = "idle"

HeapIdle ==
    /\ hfn = "" /\ hprog = <<>> /\ hip = 0 /\ henv = <<>> /\ hheap = <<>>
    /\ howned = {} /\ hresult = 0 /\ hpc = "idle"

LoopIdle ==
    /\ by = <<>> /\ brsd = <<>> /\ bnpad = 0 /\ bniter = 0 /\ bw = <<>> /\ bz = None
    /\ bzprev = None /\ bi = 0 /\ bresult = None /\ bpc = "idle"

ProdIdle ==
    /\ qfn = "" /\ qy = <<>> /\ qspline = "" /\ qobjs = "" /\ qns = <<>> /\ qyb = <<>>
    /\ qvnlen = 0 /\ qlabels = None /\ qres = <<>> /\ qb = <<>> /\ qresult = None
    /\ qerr = None /\ qpc = "idle"

EvIdle ==
    /\ eframes = <<>> /\ eshape = <<>> /\ emin_duration = 0 /\ emin_area = 0
    /\ elabels = <<>> /\ eobjs = <<>> /\ ecoll = <<>> /\ efiltered = <<>>
    /\ eout = <<>> /\ ei = 0 /\ eresult = <<>> /\ epc = "idle"

\* calculate_baseline
Init == PipeInit /\ NormIdle /\ RecIdle /\ GridIdle /\ EvIdle /\ SdIdle /\ AlsIdle /\ ProdIdle /\ LoopIdle /\ HeapIdle
Next ==
    \/ Extract
    \/ PoolMap
    \/ \E w \in DOMAIN workers : TakeChunk(w)
    \/ \E w \in DOMAIN workers : RunTask(w)
    \/ MapReturn
    \/ MapRaise
    \/ PoolClose
    \/ \E w \in DOMAIN workers : WorkerExit(w)
    \/ PoolJoin
    \/ ZipReturn
    \/ CombineStep
    \/ CombineReturn
Spec == Init /\ [][Next]_vars

\* the normalising routines
InitNorm == NormInit /\ PipeIdle /\ RecIdle /\ GridIdle /\ EvIdle /\ SdIdle /\ AlsIdle /\ ProdIdle /\ LoopIdle /\ HeapIdle
NextNorm == NormStart \/ NormStep \/ NormFinish
SpecNorm == InitNorm /\ [][NextNorm]_vars

\* sp_rec_with_labels
InitRec == RecInit /\ PipeIdle /\ NormIdle /\ GridIdle /\ EvIdle /\ SdIdle /\ AlsIdle /\ ProdIdle /\ LoopIdle /\ HeapIdle
NextRec == RecFilter \/ RecReturnZeros \/ RecPrepare \/ RecIterate \/ RecReturn
SpecRec == InitRec /\ [][NextRec]_vars

\* the tiling
InitGrid == GridInit /\ PipeIdle /\ NormIdle /\ RecIdle /\ EvIdle /\ SdIdle /\ AlsIdle /\ ProdIdle /\ LoopIdle /\ HeapIdle
NextGrid == GridTake
SpecGrid == InitGrid /\ [][NextGrid]_vars

\* EventCollection and to_filtered_array
InitEv == EvInit /\ PipeIdle /\ NormIdle /\ RecIdle /\ GridIdle /\ SdIdle /\ AlsIdle /\ ProdIdle /\ LoopIdle /\ HeapIdle
NextEv ==
    \/ EvSegment
    \/ EvCollect
    \/ EvFilter
    \/ EvRasterStart
    \/ EvRasterStep
    \/ EvRasterReturn
SpecEv == InitEv /\ [][NextEv]_vars

\* rolling_sd_pd
InitSd == SdInit /\ PipeIdle /\ NormIdle /\ RecIdle /\ GridIdle /\ EvIdle /\ AlsIdle /\ ProdIdle /\ LoopIdle /\ HeapIdle
NextSd == SdPad \/ SdRoll \/ SdScale \/ SdReturn \/ SdSmoothRaise
SpecSd == InitSd /\ [][NextSd]_vars

\* baseline_als_spl
InitAls == AlsInit /\ PipeIdle /\ NormIdle /\ RecIdle /\ GridIdle /\ EvIdle /\ SdIdle /\ ProdIdle /\ LoopIdle /\ HeapIdle
NextAls ==
    \/ AlsPad
    \/ AlsRsd
    \/ AlsRsdRaise
    \/ AlsIterate
    \/ AlsIterateRaise
    \/ AlsBreak
    \/ AlsExhausted
    \/ AlsReturn
    \/ AlsReturnRaise
SpecAls == InitAls /\ [][NextAls]_vars

\* simple_pipeline_ and simple_get_baselines
InitProd == ProdInit /\ PipeIdle /\ NormIdle /\ RecIdle /\ GridIdle /\ EvIdle /\ SdIdle /\ AlsIdle /\ LoopIdle /\ HeapIdle
NextProd ==
    \/ SpZeroInput
    \/ SpNoise
    \/ SpNoiseRaise
    \/ SpBias
    \/ SpDivide
    \/ SpDivideRaise
    \/ SpLabel
    \/ SpNoLabels
    \/ SpReconstruct
    \/ GbBaseline
    \/ GbNoise
    \/ GbNoiseRaise
    \/ GbReturn
    \/ GbReturnRaise
SpecProd == InitProd /\ [][NextProd]_vars

\* the reweighting loop of baseline_als_spl
InitLoop ==
    LoopInit /\ PipeIdle /\ NormIdle /\ RecIdle /\ GridIdle /\ EvIdle /\ SdIdle /\ AlsIdle
    /\ ProdIdle /\ HeapIdle
NextLoop == LoopPad \/ LoopPass \/ LoopPassBreak \/ LoopExhausted \/ LoopReturn
SpecLoop == InitLoop /\ [][NextLoop]_vars

\* allocation, aliasing and in-place writes
InitHeap ==
    HeapInit /\ PipeIdle /\ NormIdle /\ RecIdle /\ GridIdle /\ EvIdle /\ SdIdle /\ AlsIdle
    /\ ProdIdle /\ LoopIdle
NextHeap == HeapNew \/ HeapView \/ HeapWrite \/ HeapReturn
SpecHeap == InitHeap /\ [][NextHeap]_vars

\* ------------------------------------------------------------ properties
\* The positions of the triples of coll whose window contains pixel p.
Covering(coll, p, sh) == {i \in 1..Len(coll) : InWindow(p, coll[i].s, sh)}

\* w[p] of a triple whose window contains p.
WeightAt(tr, p, sh) ==
    Reshape(tr.w, WinH(tr.s, sh), WinW(tr.s, sh))[p[1] - tr.s[1].start][p[2] - tr.s[2].start]

\* C1: combine_weighted_signals is a weight-normalised overlap-add: at every
\* frame t and pixel p the output is (the sum of v[t]*w[p] over the triples
\* whose window contains p) / (1e-12 + the sum of those w[p]); and when every
\* patch signal is the same constant c, every covered pixel holds
\* c*W/(1e-12 + W) with W > 0, that is c up to the guard, not k*c.
C1_WeightNormalizedOverlapAdd ==
    pc = "done" =>
      /\ \A x \in Voxels(shape) :
           LET p == <<x[2], x[3]>>
               cov == Covering(recsb, p, shape)
           IN result[x] =
                Quot(SumOver([i \in cov |-> recsb[i].v[x[1]] * WeightAt(recsb[i], p, shape)], cov),
                     SumOver([i \in cov |-> WeightAt(recsb[i], p, shape)], cov),
                     1)
      /\ \A c \in 0..MaxPix :
           (\A i \in 1..Len(recsb) : \A t \in DOMAIN recsb[i].v : recsb[i].v[t] = c)
           => \A x \in Voxels(shape) :
                Covering(recsb, <<x[2], x[3]>>, shape) # {}
                => /\ result[x].g = 1
                   /\ result[x].d > 0
                   /\ result[x].n = c * result[x].d

\* C1 witness: a finished recombination of constant signals c >= 1 in which a
\* pixel lies in at least two windows.
C1_Witness ==
    /\ pc = "done"
    /\ pipeline.kind = "const"
    /\ \E p \in Pixels(shape) : Cardinality(Covering(recsb, p, shape)) >= 2

\* C3: process_signals_parallel returns a list as long as its input whose
\* element i is (pipeline(v_i), s_i, w_i), whatever the number of workers and
\* the order in which they finish.
C3_OrderAndMetadataPreserved ==
    pc \in {"combine", "done"} =>
      /\ Len(recsb) = Len(collection)
      /\ \A i \in 1..Len(collection) :
           recsb[i] = [v |-> PipelineOut(pipeline, collection[i].v),
                       s |-> collection[i].s,
                       w |-> collection[i].w]

\* C3 witness: the list was returned after a later chunk reported before an
\* earlier one, and the patch signals are not all alike.
C3_Witness ==
    /\ pc = "combine"
    /\ Len(doneOrder) >= 2
    /\ doneOrder[1] > doneOrder[2]
    /\ \E i, j \in 1..Len(recsb) : recsb[i].v # recsb[j].v

\* C4: the accumulator and the weight-count buffer exist, and are written,
\* only after every chunk has reported and every pool worker has exited, and
\* only the calling thread, at its combine step, writes them.
C4_CombineAfterJoin ==
    /\ (out_data # <<>> \/ counts # <<>> \/ pc \in {"combine", "done"})
         => /\ numberLeft = 0
            /\ \A w \in DOMAIN workers : workers[w].st = "exited"
    /\ (out_data # <<>> \/ counts # <<>>) => pc \in {"combine", "done"}

\* C4 witness: the calling thread is accumulating a batch that two workers
\* processed in more than one chunk.
C4_Witness ==
    /\ pc = "combine"
    /\ ci > 1
    /\ Len(doneOrder) >= 2
    /\ njobs >= 2

\* C5 (as claimed): when the pipeline fails on a patch the caller gets one
\* error that identifies the offending patch, and the recombination never
\* runs on missing or failed results.
C5_FailureIdentifiesPatch ==
    /\ pc = "raised" =>
         /\ Len(err) = 1
         /\ Cardinality({i \in 1..Len(collection) :
                           /\ PipelineFails(pipeline, collection[i].v)
                           /\ PipelineExc(pipeline, collection[i].v) = err[1]}) = 1
    /\ out_data # <<>> =>
         /\ mapSuccess
         /\ \A i \in 1..Len(collection) : mapValue[i] # None

\* C6 (as claimed): the weight kernel stored with every patch sums to 1, that
\* is, its numerators sum to the kernel sum.
C6_StoredKernelSumsToOne ==
    \A i \in 1..Len(collection) : SumSeq(collection[i].w) = KernSum(patch_size)

\* C7: when the windows partition the domain and every stored weight is 1,
\* recombining the extracted signals gives the stack back at every (t, row,
\* col), up to the guard: out = n/(S*(S*1e-12 + d)) with n = stack*S*d, d > 0.
C7_RoundTrip ==
    (/\ pc = "done"
     /\ pipeline.kind = "ident"
     /\ \A p \in Pixels(shape) : Cardinality(Covering(collection, p, shape)) = 1
     /\ \A i \in 1..Len(collection) : \A k \in 1..Len(collection[i].w) :
           collection[i].w[k] = KernSum(patch_size))
    => \A x \in Voxels(shape) :
         /\ result[x].g = 1
         /\ result[x].d > 0
         /\ result[x].n = frames[x] * KernSum(patch_size) * result[x].d

\* C7 witness: a finished round trip over a partition with unit weights of a
\* stack that is not constant.
C7_Witness ==
    /\ pc = "done"
    /\ pipeline.kind = "ident"
    /\ Len(collection) >= 2
    /\ \A p \in Pixels(shape) : Cardinality(Covering(collection, p, shape)) = 1
    /\ \A i \in 1..Len(collection) : \A k \in 1..Len(collection[i].w) :
          collection[i].w[k] = KernSum(patch_size)
    /\ \E x, y \in Voxels(shape) : frames[x] # frames[y]

\* C2 (as claimed): every routine that normalises an accumulator by a
\* weight-count buffer returns exactly zero, and neither NaN nor infinity, at
\* every location whose accumulated weight is zero.
C2_ZeroWeightGivesZero ==
    npc = "done" =>
      \A x \in DOMAIN nresult :
        ncounts[<<x[2], x[3]>>] = 0 => IsZero(nresult[x])

\* The tiling scenario is the one that runs.
IsScenario ==
    /\ gshape[2] = ScenarioSide /\ gshape[3] = ScenarioSide
    /\ gsize = ScenarioPatch /\ gstride = ScenarioStride

\* The rows and columns called interior in the scenario: 2..97.
Interior == (ScenarioPatch \div 2)..(ScenarioSide - 1 - (ScenarioPatch \div 2))

\* C8: once signals_from_array_avg has taken all its patches, every window
\* lies inside the domain and is not empty, and in the scenario of a 100x100
\* domain with patch_size 5 and stride 2 every pixel whose row and column are
\* both in 2..97 lies in at least one window.
C8_TilingCoversInterior ==
    gpc = "done" =>
        /\ \A i \in 1..Len(gtiles) :
              /\ 0 <= gtiles[i].s[1].start /\ gtiles[i].s[1].stop <= gshape[2]
              /\ 0 <= gtiles[i].s[2].start /\ gtiles[i].s[2].stop <= gshape[3]
              /\ gtiles[i].rows # {} /\ gtiles[i].rows \subseteq 0..(gshape[2] - 1)
              /\ gtiles[i].cols # {} /\ gtiles[i].cols \subseteq 0..(gshape[3] - 1)
        /\ IsScenario =>
              \A r \in Interior, c \in Interior :
                  \E i \in 1..Len(gtiles) : r \in gtiles[i].rows /\ c \in gtiles[i].cols

\* The scenario has run to its end, some window was clipped at the border and
\* some was not.
C8_Witness ==
    /\ gpc = "done" /\ IsScenario
    /\ \E i \in 1..Len(gtiles) : Cardinality(gtiles[i].rows) < ScenarioPatch
    /\ \E i \in 1..Len(gtiles) : Cardinality(gtiles[i].rows) = ScenarioPatch
                                 /\ Cardinality(gtiles[i].cols) = ScenarioPatch

\* No run of True labels is min_size long or longer (with min_size <= 1: no
\* label is True).
NoRunSurvives ==
    \A i \in 1..Len(labels) :
        \E k \in i..(i + min_size - 1) : k > Len(labels) \/ labels[k] = 0

\* C9: when no run of labels survives the size filter, and in particular when
\* labels is all False, sp_rec_with_labels returns the all-zero signal of the
\* length of vec, whatever vec and min_size are.
C9_NoSurvivorGivesZeros ==
    (rpc = "done" /\ NoRunSurvives) =>
        /\ Len(rout) = Len(vec)
        /\ \A i \in 1..Len(rout) : rout[i] = 0

\* A call has returned whose labels hold True runs, none of them min_size
\* long, over positive samples of the signal.
C9_Witness ==
    /\ rpc = "done" /\ NoRunSurvives
    /\ min_size > 1
    /\ \E i \in 1..Len(labels) : labels[i] = 1 /\ vec[i] > 0
    /\ \A i \in 1..Len(rout) : rout[i] = 0

\* Index i (1-based) lies in a run of True labels that is min_size long or longer.
InSurvivingRun(i) ==
    \E a \in 1..i : \E b \in i..Len(labels) :
        /\ \A k \in a..b : labels[k] = 1
        /\ b - a + 1 >= min_size

\* C10: when a run survives, the weight mask the iteration starts from is True
\* only on the surviving runs, and the output is zero before the first
\* surviving run.
C10_DiscardedRunsLeaveNoSupport ==
    /\ (rpc = "loop" /\ it = 0) =>
          \A i \in 1..Len(weights) : weights[i] # 0 => InSurvivingRun(i)
    /\ rpc = "done" =>
          \A i \in 1..Len(rout) :
              rout[i] # 0 => \E j \in 1..i : InSurvivingRun(j)

\* C11: every sample of the signal sp_rec_with_labels returns is >= 0, and it
\* is exactly zero wherever the input signal is not positive and wherever the
\* final weight mask is zero.
C11_OutputNonNegative ==
    rpc = "done" =>
        /\ Len(rout) = Len(vec)
        /\ \A i \in 1..Len(rout) :
              /\ rout[i] >= 0
              /\ vec[i] <= 0 => rout[i] = 0
              /\ (weights # <<>> /\ weights[i] = 0) => rout[i] = 0

\* A call has gone through the loop and returned with the final mask True over
\* a negative sample, True over a positive sample and False over a positive one.
C11_Witness ==
    /\ rpc = "done" /\ weights # <<>>
    /\ \E i \in 1..Len(vec) : weights[i] = 1 /\ vec[i] < 0 /\ rout[i] = 0
    /\ \E i \in 1..Len(vec) : weights[i] = 1 /\ vec[i] > 0 /\ rout[i] = vec[i]
    /\ \E i \in 1..Len(vec) : weights[i] = 0 /\ vec[i] > 0 /\ rout[i] = 0

\* The filtered collection exists.
EvBuilt == epc \in {"built", "raster", "done"}

\* The elements of a sequence.
Range(s) == {s[j] : j \in DOMAIN s}

\* C12: filtered_coll holds exactly the records of coll with
\* duration > min_duration, peak > 0.05 and area > min_area, all three strict,
\* so a record with duration <= min_duration is in coll and not in filtered_coll.
C12_FilterIsStrictConjunction ==
    EvBuilt =>
        /\ Range(efiltered) \subseteq Range(ecoll)
        /\ \A j \in 1..Len(ecoll) :
              ecoll[j] \in Range(efiltered) <=>
                  /\ ecoll[j].duration > emin_duration
                  /\ ecoll[j].peak > PeakCut
                  /\ ecoll[j].area > emin_area

\* Two records were collected: one is kept, the other has a duration equal to
\* min_duration (and enough peak and area) and is left out.
C12_Witness ==
    /\ EvBuilt
    /\ Len(efiltered) = 1 /\ Len(ecoll) = 2
    /\ \E j \in 1..2 : /\ ecoll[j].duration = emin_duration
                       /\ ecoll[j].peak > PeakCut /\ ecoll[j].area > emin_area
                       /\ ecoll[j] \notin Range(efiltered)

\* The voxels where the field is not zero.
EvSupport == {x \in DOMAIN eframes : eframes[x] # 0}

\* The field is zero except for one rectangular block of value 1.0.
IsOneBlock ==
    /\ EvSupport # {}
    /\ \A x \in EvSupport : eframes[x] = EvOne
    /\ \A x \in EvSupport, y \in EvSupport, z \in EvSupport :
          <<x[1], y[2], z[3]>> \in EvSupport

BlockDuration == Cardinality({x[1] : x \in EvSupport})
BlockArea == Cardinality({<<x[2], x[3]>> : x \in EvSupport})

\* C13: for a field that is zero except for one rectangular block of value 1.0
\* over d frames and a pixels, with d > min_duration and a > min_area, there is
\* exactly one record and exactly one filtered record, with duration d, area a
\* and peak 1.0.
C13_SingleBlockSingleRecord ==
    (EvBuilt /\ IsOneBlock /\ BlockDuration > emin_duration /\ BlockArea > emin_area) =>
        /\ Len(ecoll) = 1 /\ Len(efiltered) = 1
        /\ efiltered[1] = ecoll[1]
        /\ ecoll[1].duration = BlockDuration
        /\ ecoll[1].area = BlockArea
        /\ ecoll[1].peak = EvOne

\* A block over more than one frame and more than one pixel has been collected
\* and kept.
C13_Witness ==
    /\ EvBuilt /\ IsOneBlock
    /\ BlockDuration > 1 /\ BlockDuration > emin_duration
    /\ BlockArea > 1 /\ BlockArea > emin_area
    /\ Cardinality(EvSupport) > BlockArea
    /\ Len(efiltered) = 1 /\ efiltered[1].area = BlockArea

\* C14: to_filtered_array returns a volume of the shape of labels that holds a
\* filtered record's idx (its label minus 1) on every voxel of that record's
\* component and 0 on every other voxel.
C14_RasterOnlyOwnVoxels ==
    epc = "done" =>
        /\ DOMAIN eresult = Voxels(eshape)
        /\ DOMAIN eresult = DOMAIN elabels
        /\ \A x \in DOMAIN eresult :
              eresult[x] = IF \E j \in 1..Len(efiltered) : elabels[x] = efiltered[j].idx + 1
                           THEN elabels[x] - 1
                           ELSE 0

\* A filtered record with idx >= 1 has been rasterized whose bounding box
\* holds a voxel of another component, left at 0.
C14_Witness ==
    /\ epc = "done"
    /\ \E j \in 1..Len(efiltered) :
          /\ efiltered[j].idx >= 1
          /\ \E x \in DOMAIN elabels :
                /\ InBox(x, eobjs[efiltered[j].idx + 1])
                /\ elabels[x] # 0 /\ elabels[x] # efiltered[j].idx + 1
                /\ eresult[x] = 0
          /\ \E y \in DOMAIN elabels : eresult[y] = efiltered[j].idx

\* Filtered records are records of coll, in coll's order.
FilteredIsSubsequence ==
    EvBuilt =>
        /\ \A j \in 1..Len(efiltered) :
              \E k \in 1..Len(ecoll) : efiltered[j] = ecoll[k] /\ ecoll[k].idx = k - 1
        /\ \A j \in 1..Len(efiltered), k \in 1..Len(efiltered) :
              j < k => efiltered[j].idx < efiltered[k].idx

\* Building filtered_coll and rasterizing leave labels, objs and coll alone.
FilterAndRasterKeepState ==
    epc \in {"collected", "built", "raster"} =>
        elabels' = elabels /\ eobjs' = eobjs /\ ecoll' = ecoll /\ eframes' = eframes

\* C15: filtered_coll is a sub-sequence of coll, in the same order and with
\* every field of every record unchanged, and neither building it nor
\* to_filtered_array changes labels, objs or coll.
C15_FilteringIsPureSubset ==
    [](FilteredIsSubsequence) /\ [][FilterAndRasterKeepState]_vars

\* to_filtered_array has returned for a collection of two records of which
\* only the second was kept.
C15_Witness ==
    /\ epc = "done"
    /\ Len(ecoll) = 2 /\ Len(efiltered) = 1 /\ efiltered[1].idx = 1
    /\ efiltered[1] = ecoll[2]

\* The voxels labelled with component k + 1.
OwnVoxels(k) == {x \in DOMAIN elabels : elabels[x] = k + 1}

\* C16: peak and avg of every record are the maximum and the mean of the data
\* over the voxels labelled with that component only, and area and volume
\* count those voxels only, whatever else lies in the bounding box.
C16_ValuesOverOwnMask ==
    epc \in {"collected", "built", "raster", "done"} =>
        \A j \in 1..Len(ecoll) :
            LET own == OwnVoxels(ecoll[j].idx)
            IN  /\ ecoll[j].idx = j - 1
                /\ own # {}
                /\ \E x \in own : ecoll[j].peak = eframes[x]
                /\ \A x \in own : ecoll[j].peak >= eframes[x]
                /\ ecoll[j].avg.d = Cardinality(own)
                /\ ecoll[j].avg.n = SumOver(eframes, own)
                /\ ecoll[j].volume = Cardinality(own)
                /\ ecoll[j].area = Cardinality({<<x[2], x[3]>> : x \in own})

\* A record has been built whose bounding box holds a voxel of another
\* component with a value above the record's peak.
C16_Witness ==
    /\ epc = "collected"
    /\ \E j \in 1..Len(ecoll) :
          \E x \in DOMAIN elabels :
              /\ InBox(x, eobjs[j])
              /\ elabels[x] # 0 /\ elabels[x] # j
              /\ eframes[x] > ecoll[j].peak

\* C17: rolling_sd_pd returns, without raising, a profile as long as its input
\* signal, for every non-empty signal and the default half-window
\* int(len/10), signals shorter than 10 samples included.
C17_ProfileLengthIsInputLength ==
    spc = "done" => serr = None /\ Len(sresult) = Len(sv)

\* C18: every sample of the profile rolling_sd_pd returns is a number (not
\* NaN) and is >= 0, with smooth_output True and False and any positive
\* correct_factor.
C18_ProfileNonNegative ==
    (spc = "done" /\ serr = None) =>
        \A i \in 1..Len(sresult) : sresult[i] # None /\ sresult[i][1].n >= 0

\* C19: the reweighting loop of baseline_als_spl calls the smoother at most
\* niter times, and the function ends in a normal return, never an error,
\* of an array as long as the input signal, also when niter is exhausted.
C19_AlsReturnsNormally ==
    /\ acalls <= aniter
    /\ apc = "done" => aerr = None /\ aresult = Some(alen)

\* The patch signal is degenerate for the producer called: it is all zero, or
\* (simple_pipeline_) the labeler was called and marked no sample active.
DegeneratePatch ==
    \/ qfn # "tmvm_get_baselines" /\ ~AnyNonzero(qy)
    \/ qfn = "simple_pipeline_" /\ qlabels # None /\ ~AnyTrue(qlabels[1])

\* C20: a per-patch producer given a degenerate patch returns an all-zero
\* signal of the input length, neither raising nor returning non-finite
\* values: simple_pipeline_ on an all-zero signal or when the labeler marks no
\* sample active, simple_get_baselines on an all-zero signal.
C20_DegenerateGivesZeros ==
    (qpc = "done" /\ DegeneratePatch)
    => /\ qerr = None
       /\ qresult # None
       /\ qresult[1].val = zeros_like(qy)

\* C27: the mask (to_filtered_array() > 0) that process_framestack multiplies
\* the event stack by is true at every voxel of every record of filtered_coll,
\* whatever the record's idx (idx >= 0).
C27_FilteredEventsStayVisible ==
    epc = "done" =>
      \A i \in 1..Len(efiltered) :
         \A x \in event_volume_mask(elabels, eobjs, efiltered[i].idx) : eresult[x] > 0

\* One pass of the loop of sp_rec_with_labels changes the mask only forward: a
\* sample that becomes active lies after an active sample, with vrec above
\* 0.1 at every sample from the one after it up to the new one, and a sample
\* that becomes inactive has the relaxed signal below 0.5.
MaskStepIsForward ==
    (rpc = "loop" /\ it' = it + 1) =>
      \A i \in 1..Len(weights) :
         /\ (weights[i] = 0 /\ weights'[i] # 0)
              => \E j \in 1..(i - 1) :
                    /\ weights[j] # 0
                    /\ \A m \in (j + 1)..i : vrec[m] > Tenth
         /\ (weights[i] # 0 /\ weights'[i] = 0) => vec1'[i] < Half

\* The mask and the returned signal are zero before the first True label.
ZeroBeforeFirstLabel ==
    \A i \in 1..Len(labels) :
       (\A j \in 1..i : labels[j] = 0)
       => /\ rpc \in {"loop", "done"} /\ weights # <<>> => weights[i] = 0
          /\ rpc = "done" => rout[i] = 0

\* C26: throughout the iterations of sp_rec_with_labels the mask grows only
\* forward (a sample becomes active only by the extension of an active run
\* over samples where vrec > 0.1, and inactive only by erosion where
\* vec1 < 0.5); hence the mask and the output are zero at every index before
\* the first True label, after any number of iterations.
C26_MaskGrowsOnlyForward ==
    [][MaskStepIsForward]_vars /\ []ZeroBeforeFirstLabel

\* C26 witness: a finished reconstruction whose first sample is not labelled,
\* in which the mask has grown onto an unlabelled sample and has lost a
\* labelled one.
C26_Witness ==
    /\ rpc = "done" /\ weights # <<>>
    /\ labels[1] = 0
    /\ \E i \in 1..Len(labels) : labels[i] = 0 /\ weights[i] # 0
    /\ \E i \in 1..Len(labels) : labels[i] # 0 /\ weights[i] = 0

\* C24: after the weight update of every pass of baseline_als_spl each sample
\* is in exactly one class, positive outlier (y-z > k*rsd), negative outlier
\* (y-z < -k*rsd) or non-outlier, and its weight is exactly p*(1-r), p*r or
\* (1-p) respectively, also at the tie y-z = -k*rsd and when rsd = 0; the
\* first and last ceil(smooth) weights are exactly (1-p).
C24_WeightIsOneOfThreeClasses ==
    (bpc \in {"loop", "after"} /\ bi >= 1) =>
      \A i \in 1..Len(bw) :
         LET d == by[i] - bz[1][i]
             s == brsd[i]
         IN  IF i <= bnpad \/ i > Len(bw) - bnpad THEN bw[i] = (PInv - 1) * 10
             ELSE IF KInv * d > s THEN bw[i] = 10 - AsymmTenths
             ELSE IF KInv * d < -s THEN bw[i] = AsymmTenths
             ELSE bw[i] = (PInv - 1) * 10

\* norm(z - zp)/norm(zp) < eps, a quotient by zero being below nothing
RelChangeBelowEps(z, zp) ==
    LET delta == NormSq([i \in 1..Len(z) |-> z[i] - zp[i]])
    IN  /\ NormSq(zp) > 0
        /\ delta = 0 \/ EpsInv * EpsInv <= (NormSq(zp) - 1) \div delta

\* A pass is made only inside the loop and below niter; it leaves the loop
\* exactly when zprev is set and the relative change is below eps; without a
\* pass the loop is left only when niter passes were made.
LoopStepsAsClaimed ==
    /\ bi' # bi =>
         /\ bpc = "loop" /\ bi < bniter /\ bi' = bi + 1
         /\ IF bzprev # None /\ RelChangeBelowEps(bz'[1], bzprev[1])
            THEN bpc' = "after" ELSE bpc' = "loop"
         /\ bi = 0 => bpc' = "loop"
    /\ (bpc = "loop" /\ bpc' # "loop" /\ bi' = bi) => bi = bniter

\* C25: the loop of baseline_als_spl exits at the first pass i >= 2 at which
\* norm(z - zprev)/norm(zprev) < eps and makes no further pass; it never exits
\* on the first pass, and when the test is never met (also when norm(zprev)
\* is 0) it makes exactly niter passes.
C25_ExitAtFirstConvergedPass ==
    [][LoopStepsAsClaimed]_vars

\* C25 witness: the loop was left by the break, at a pass after the first and
\* before the last.
C25_Witness ==
    /\ bpc = "after"
    /\ 2 <= bi /\ bi < bniter
    /\ bzprev # None /\ bz = bzprev

\* C21: an invalid configuration is rejected when the pipeline is set up,
\* before any patch signal is processed, and never yields a result: for
\* sp_rec_with_labels, a min_size larger than the signal never gets past the
\* entry of the function and no signal is returned for it.
C21_InvalidConfigurationRejected ==
    (rpc # "idle" /\ min_size > Len(vec)) => (rpc = "start" /\ rout = <<>>)

\* C22: no pipeline operation writes into an array the caller passed in:
\* signals_from_array_avg, combine_weighted_signals, patch_pca_denoise2,
\* sp_rec_with_labels (signal and labels) and baseline_als_spl (signal and rsd)
\* leave their inputs unchanged and return a newly allocated array.
C22_InputsNeverWritten ==
    /\ \A c \in howned : hheap[c] = 0
    /\ hpc = "done" => hresult \notin howned

\* C22 witness: a finished sp_rec_with_labels in which a name other than the
\* arguments is bound to the caller's labels and in-place writes were made.
C22_Witness ==
    /\ hpc = "done" /\ hfn = "sp_rec_with_labels"
    /\ Bound(henv, "filtered_labels") \in howned
    /\ \E c \in 1..Len(hheap) : hheap[c] > 0

\* |d| <= th*ns, both as long as d; a comparison with NaN is False
WithinNoise(d, ns) ==
    [i \in 1..Len(d) |->
        /\ ns[i] # None
        /\ Abs(d[i]) * ns[i][1].d <= NoiseThreshold * ns[i][1].n]

\* C23: the bias-corrected baseline (simple_get_baselines, tmvm_get_baselines)
\* is the first-pass baseline shifted by the median of exactly those residual
\* samples d = res - b with |d| <= th*ns: samples far below -th*ns are left
\* out of the median like samples far above +th*ns.
C23_ShiftIsMedianWithinNoise ==
    (qpc = "done" /\ qfn \in Getters /\ qresult # None)
    => LET d == Residual(qres, qb)
       IN  qresult[1].val = ShiftBy(qb, Compress(d, WithinNoise(d, qns)))

====
